---- MODULE Spec2Model ----
(***************************************************************************)
(* A model of the yelp_cheetah legacy compiler:                            *)
(*   Cheetah/SettingsManager.py  - the settings store                      *)
(*   Cheetah/legacy_compiler.py  - MethodCompiler, LegacyCompiler          *)
(*                                                                         *)
(* Text is modelled as a sequence of tokens (strings); concatenation of    *)
(* text is \o.  Python values held by settings are pairs <<type, repr>>.    *)
(***************************************************************************)
EXTENDS Integers, Sequences, FiniteSets, TLC

VARIABLES
    settings,   \* SettingsManager._settings : name -> value
    stacks,     \* SettingsManager._stacks   : defaultdict(list)
    held,       \* history: per name, the value held before each open push
    mc,         \* a MethodCompiler taken on its own
    global_vars,            \* LegacyCompiler._global_vars
    gettext_scannables,     \* LegacyCompiler._gettext_scannables
    class_compiler,         \* LegacyCompiler._class_compiler : a reference
    cc,                     \* the ClassCompiler getModuleCode spawned
    importStatements,       \* LegacyCompiler._importStatements
    base_import,            \* LegacyCompiler._base_import
    pc,         \* where getModuleCode stands
    nops,       \* number of compiler calls that returned so far
    call        \* the last call made: its name, arguments, outcome

vars == <<settings, stacks, held, mc, global_vars, gettext_scannables,
          class_compiler, cc, importStatements, base_import, pc, nops, call>>

storeVars == <<settings, stacks, held>>

compilerVars == <<global_vars, gettext_scannables>>

moduleVars == <<class_compiler, cc, importStatements, base_import, pc>>

----------------------------------------------------------------------------
(* Bounds *)

\* open pushSetting calls (over all names) at any time
MaxPushed == 2

\* MethodCompiler calls that return, per run
MaxOps == 4

\* genCheetahVar calls per run
MaxVarCalls == 1

\* segments of a reference
MaxSegs == 3

\* lines of settings text and items of mappings handed to the store, per run
MaxLines == 3

\* callbacks of the parser, per parse
MaxCallbacks == 4

----------------------------------------------------------------------------
(* Generic helpers *)

Last(s) == s[Len(s)]

Front(s) == SubSeq(s, 1, Len(s) - 1)

----------------------------------------------------------------------------
(* Python values *)

PyTrue == <<"bool", "True">>

PyFalse == <<"bool", "False">>

PyNone == <<"NoneType", "None">>

PyStr(s) == <<"str", s>>

NoValue == <<"", "">>

----------------------------------------------------------------------------
(* SettingsManager *)

DEFAULT_COMPILER_SETTINGS ==
    [ useNameMapper |-> PyTrue,
      useAutocalling |-> PyFalse,
      useDottedNotation |-> PyFalse,
      useLegacyImportMode |-> PyTrue,
      mainMethodName |-> PyStr("respond"),
      mainMethodNameForSubclasses |-> PyStr("writeBody"),
      gettextTokens |-> <<"list", << <<"_">>, <<"gettext">>, <<"ngettext">>,
                                     <<"pgettext">>, <<"npgettext">> >> >>,
      macroDirectives |-> <<"dict", <<>> >>,
      optimize_lookup |-> PyTrue ]

\* defaultdict(list): reading a missing key yields (and creates) an empty list
StackGet(st, name) == IF name \in DOMAIN st THEN st[name] ELSE <<>>

StackPut(st, name, seq) ==
    [n \in DOMAIN st \cup {name} |-> IF n = name THEN seq ELSE st[n]]

\* An outcome of a store operation: the new store, the exception raised
\* ("none" when the call returns) and the value returned.
Outcome(se, st, exc, ret) ==
    [settings |-> se, stacks |-> st, exc |-> exc, ret |-> ret]

setting_raisesAsWrite(se, st, name) ==
    IF name \in DOMAIN se
    THEN Outcome(se, st, "none", se[name])
    ELSE Outcome(se, st, "UnexpectedSettingName", NoValue)

setting(se, st, name) ==
    IF name \in DOMAIN se
    THEN Outcome(se, st, "none", se[name])
    ELSE Outcome(se, st, "KeyError", NoValue)

setSetting_dropsGuard(se, st, name, value) ==
    Outcome([n \in DOMAIN se \cup {name} |-> IF n = name THEN value ELSE se[n]],
            st, "none", NoValue)

setSetting(se, st, name, value) ==
    IF name \notin DOMAIN se
    THEN Outcome(se, st, "UnexpectedSettingName", NoValue)
    ELSE Outcome([se EXCEPT ![name] = value], st, "none", NoValue)

pushSetting(se, st, name, value) ==
    LET st1 == StackPut(st, name, StackGet(st, name))
        r == setting(se, st1, name)
    IN  IF r.exc # "none" THEN r
        ELSE setSetting(se, StackPut(st1, name, Append(st1[name], r.ret)),
                        name, value)

popSetting_popsOldest(se, st, name) ==
    LET st1 == StackPut(st, name, StackGet(st, name))
    IN  IF st1[name] = <<>>
        THEN Outcome(se, st1, "IndexError", NoValue)
        ELSE setSetting(se, StackPut(st1, name, Tail(st1[name])),
                        name, Head(st1[name]))

popSetting(se, st, name) ==
    LET st1 == StackPut(st, name, StackGet(st, name))
    IN  IF st1[name] = <<>>
        THEN Outcome(se, st1, "IndexError", NoValue)
        ELSE setSetting(se, StackPut(st1, name, Front(st1[name])),
                        name, Last(st1[name]))

----------------------------------------------------------------------------
(* Text: a sequence of tokens *)

INDENT == <<"    ">>

RECURSIVE Rep(_, _)
Rep(text, n) == IF n <= 0 THEN <<>> ELSE text \o Rep(text, n - 1)

RECURSIVE Join(_)
Join(texts) == IF texts = <<>> THEN <<>> ELSE Head(texts) \o Join(Tail(texts))

Contains(text, tok) == \E i \in 1..Len(text) : text[i] = tok

IsSpace(tok) == tok \in {" ", "\n", "\t", "\r"}

RECURSIVE LStrip(_)
LStrip(text) ==
    IF text # <<>> /\ IsSpace(Head(text)) THEN LStrip(Tail(text)) ELSE text

RECURSIVE RStrip(_)
RStrip(text) ==
    IF text # <<>> /\ IsSpace(Last(text)) THEN RStrip(Front(text)) ELSE text

\* str.strip()
Strip(text) == RStrip(LStrip(text))

\* str.lower() on the one-token names the model feeds it
Lower(tok) ==
    CASE tok \in {"None", "NONE", "none"} -> "none"
      [] tok \in {"True", "TRUE", "true"} -> "true"
      [] tok \in {"False", "FALSE", "false"} -> "false"
      [] tok = "WebSafe" -> "websafe"
      [] OTHER -> tok

\* repr() of a text: quoted with ' unless the text holds a ' and no ",
\* line breaks and the quote character escaped
PyReprQuote(text) ==
    IF Contains(text, "'") /\ ~Contains(text, "\"") THEN "\"" ELSE "'"

PyReprBody(text) ==
    [i \in 1..Len(text) |->
        CASE text[i] = "\n" -> "\\n"
          [] text[i] = "\r" -> "\\r"
          [] text[i] = PyReprQuote(text) -> IF text[i] = "'" THEN "\\'" ELSE "\\\""
          [] OTHER -> text[i]]

PyRepr(text) == <<PyReprQuote(text)>> \o PyReprBody(text) \o <<PyReprQuote(text)>>

\* escapedNewlineRE.sub('\\1\n', body): every escaped line break of a repr
\* body becomes the escape's backslash prefix (empty here) and a real one
UnescapeNewlines(body) ==
    [i \in 1..Len(body) |-> IF body[i] = "\\n" THEN "\n" ELSE body[i]]

\* '{0}'.format(n) of an integer
Str(n) == <<ToString(n)>>

\* get_lvalues(expr): the names an assignment statement binds
get_lvalues(expr) ==
    {expr[i] : i \in {j \in 1..(Len(expr) - 1) : expr[j + 1] \in {" = ", " += "}}}

----------------------------------------------------------------------------
(* SettingsManager: bulk updates *)

\* ''.join(text): the text as one string
RECURSIVE Text2Str(_)
Text2Str(text) == IF text = <<>> THEN "" ELSE Head(text) \o Text2Str(Tail(text))

convert_value_caseSensitive(s) ==
    IF s = "none" THEN PyNone
    ELSE IF s = "true" THEN PyTrue
    ELSE IF s = "false" THEN PyFalse
    ELSE PyStr(s)

convert_value(s) ==
    IF Lower(s) = "none" THEN PyNone
    ELSE IF Lower(s) = "true" THEN PyTrue
    ELSE IF Lower(s) = "false" THEN PyFalse
    ELSE PyStr(s)

\* A dict is a function; dict_items(d) is every order its items() may come in
\* (insertion order or hash order, by interpreter), each a sequence of pairs
dict_items(d) ==
    {items \in [1..Cardinality(DOMAIN d) -> {<<k, d[k]>> : k \in DOMAIN d}] :
        \A i, j \in DOMAIN items : items[i][1] = items[j][1] => i = j}

updateSettings_allOrNothing(se, st, items) ==
    IF \E i \in DOMAIN items : items[i][1] \notin DOMAIN se
    THEN Outcome(se, st, "UnexpectedSettingName", NoValue)
    ELSE Outcome([n \in DOMAIN se |->
                     IF \E i \in DOMAIN items : items[i][1] = n
                     THEN items[CHOOSE i \in DOMAIN items : items[i][1] = n][2]
                     ELSE se[n]],
                 st, "none", NoValue)

\* items: new_settings.items() in the order the loop meets them
RECURSIVE updateSettings(_, _, _)
updateSettings(se, st, items) ==
    IF items = <<>> THEN Outcome(se, st, "none", NoValue)
    ELSE LET r == setSetting(se, st, Head(items)[1], Head(items)[2])
         IN  IF r.exc # "none" THEN r
             ELSE updateSettings(r.settings, r.stacks, Tail(items))

\* str.splitlines(): a line break at the end of the text opens no line
RECURSIVE splitlines(_)
splitlines(text) ==
    IF text = <<>> THEN <<>>
    ELSE IF \E i \in DOMAIN text : text[i] \in {"\n", "\r"}
    THEN LET i == CHOOSE k \in DOMAIN text :
                      /\ text[k] \in {"\n", "\r"}
                      /\ \A j \in 1..(k - 1) : text[j] \notin {"\n", "\r"}
         IN  <<SubSeq(text, 1, i - 1)>> \o splitlines(SubSeq(text, i + 1, Len(text)))
    ELSE <<text>>

\* line.split('=', 1)
split_eq(line) ==
    IF Contains(line, "=")
    THEN LET i == CHOOSE k \in DOMAIN line :
                      /\ line[k] = "="
                      /\ \A j \in 1..(k - 1) : line[j] # "="
         IN  <<SubSeq(line, 1, i - 1), SubSeq(line, i + 1, Len(line))>>
    ELSE <<line>>

\* values = [line.split('=', 1) for line in config_str.strip().splitlines()]
config_values(config_str) ==
    LET lines == splitlines(Strip(config_str))
    IN  [i \in DOMAIN lines |-> split_eq(lines[i])]

\* the dict of (key.strip(), convert_value(value.strip())): a later line of
\* the same key replaces the earlier one
config_settings(values) ==
    [k \in {Text2Str(Strip(values[i][1])) : i \in DOMAIN values} |->
        LET i == CHOOSE n \in DOMAIN values :
                     /\ Text2Str(Strip(values[n][1])) = k
                     /\ \A j \in DOMAIN values :
                            Text2Str(Strip(values[j][1])) = k => j <= n
        IN  convert_value(Text2Str(Strip(values[i][2])))]

\* unpacking "key, value" of a line without '=' raises before any write;
\* items: the order in which the dict built from the lines is iterated
updateSettingsFromConfigStr(se, st, config_str, items) ==
    IF \E i \in DOMAIN config_values(config_str) :
           Len(config_values(config_str)[i]) # 2
    THEN Outcome(se, st, "ValueError", NoValue)
    ELSE updateSettings(se, st, items)

----------------------------------------------------------------------------
(* MethodCompiler *)

BaseIndentLev == 2

NewMethodCompiler(methodName, initialMethodComment, decorators) ==
    [ next_variable_id |-> 0,
      methodName |-> methodName,
      initialMethodComment |-> initialMethodComment,
      indentLev |-> BaseIndentLev,
      pendingStrConstChunks |-> <<>>,
      methodBodyChunks |-> <<>>,
      callRegionsStack |-> <<>>,
      filterRegionsStack |-> <<>>,
      hasReturnStatement |-> FALSE,
      isGenerator |-> FALSE,
      arguments |-> << <<"self", "None">> >>,
      local_vars |-> {"self"},
      decorators |-> decorators ]

\* The result of a call that may raise: the MethodCompiler it leaves and the
\* exception ("none" when the call returns)
Ret(m) == [m |-> m, exc |-> "none"]

Raise(m, exc) == [m |-> m, exc |-> exc]

indentation(m) == Rep(INDENT, m.indentLev)

indent(m) == [m EXCEPT !.indentLev = @ + 1]

dedent_guardsBase(m) ==
    IF m.indentLev <= BaseIndentLev
    THEN Raise(m, "AssertionError")
    ELSE Ret([m EXCEPT !.indentLev = @ - 1])

dedent(m) ==
    IF m.indentLev = 0
    THEN Raise(m, "AssertionError")
    ELSE Ret([m EXCEPT !.indentLev = @ - 1])

\* addChunk once the pending literal has been committed
appendChunk(m, chunk) ==
    [m EXCEPT !.methodBodyChunks =
        Append(@, IF chunk # <<>> THEN <<"\n">> \o indentation(m) \o chunk
                  ELSE <<"\n">>)]

\* commitStrConst; its addWriteChunk -> addChunk -> commitStrConst finds the
\* pending list already emptied
commitStrConst(m) ==
    LET strConst == Join(m.pendingStrConstChunks)
        m1 == [m EXCEPT !.pendingStrConstChunks = <<>>]
        quote == IF PyReprQuote(strConst) = "'" THEN "'''" ELSE "\"\"\""
        out == <<quote>> \o UnescapeNewlines(PyReprBody(strConst)) \o <<quote>>
    IN  IF m.pendingStrConstChunks = <<>> THEN m
        ELSE IF strConst = <<>> THEN m1
        ELSE appendChunk(m1, <<"write(">> \o out \o <<")">>)

addChunk_noCommit(m, chunk) == appendChunk(m, chunk)

addChunk(m, chunk) == appendChunk(commitStrConst(m), chunk)

appendToPrevChunk(m, appendage) ==
    [m EXCEPT !.methodBodyChunks[Len(m.methodBodyChunks)] = @ \o appendage]

addWriteChunk(m, chunk) == addChunk(m, <<"write(">> \o chunk \o <<")">>)

\* rawExpr = <<>> stands for None and for the empty text (both falsy)
addFilteredChunk(m, chunk, rawExpr, lineCol) ==
    LET m1 == IF rawExpr # <<>> /\ ~Contains(rawExpr, "\n") /\ ~Contains(rawExpr, "\r")
              THEN appendToPrevChunk(
                       addChunk(m, <<"_v = ">> \o chunk \o <<" # ">> \o PyRepr(rawExpr)),
                       <<" on line ">> \o Str(lineCol[1]) \o <<", col ">> \o Str(lineCol[2]))
              ELSE addChunk(m, <<"_v = ">> \o chunk)
    IN  addChunk(m1, <<"if _v is not NO_CONTENT: write(_filter(_v))">>)

addStrConst(m, strConst) ==
    [m EXCEPT !.pendingStrConstChunks = Append(@, strConst)]

append_line_col_comment(m, line_col) ==
    appendToPrevChunk(m, <<" # generated from line ">> \o Str(line_col[1])
                         \o <<", col ">> \o Str(line_col[2]) \o <<".">>)

update_locals(m, expr) ==
    [m EXCEPT !.local_vars = @ \cup get_lvalues(expr)]

add_with_line_col(m, expr, line_col) ==
    append_line_col_comment(addChunk(update_locals(m, expr), expr), line_col)

addReturn_noAssert(m, expr, line_col) ==
    Ret(add_with_line_col([m EXCEPT !.hasReturnStatement = TRUE], expr, line_col))

addReturn(m, expr, line_col) ==
    IF m.isGenerator
    THEN Raise(m, "AssertionError")
    ELSE Ret(add_with_line_col([m EXCEPT !.hasReturnStatement = TRUE],
                               expr, line_col))

addYield(m, expr, line_col) ==
    IF m.hasReturnStatement
    THEN Raise(m, "AssertionError")
    ELSE Ret(add_with_line_col([m EXCEPT !.isGenerator = TRUE], expr, line_col))

\* next_id: the id it returns and the MethodCompiler it leaves
\* addWhile = addIf = addTry
_add_indenting_directive(m, expr, line_col) ==
    IF Last(expr) = ":" THEN Raise(m, "AssertionError")
    ELSE Ret(indent(append_line_col_comment(addChunk(m, expr \o <<":">>), line_col)))

\* addFinally, and addElse / addElif through the parser
addReIndentingDirective(m, expr, line_col, dedent_first) ==
    LET m1 == commitStrConst(m)
        d == IF dedent_first THEN dedent(m1) ELSE Ret(m1)
    IN  IF d.exc # "none" THEN d
        ELSE IF Last(expr) = ":" THEN Raise(d.m, "AssertionError")
        ELSE Ret(indent(append_line_col_comment(addChunk(d.m, expr \o <<":">>),
                                                line_col)))

next_id_noIncrement(m) ==
    [m |-> m, id |-> <<"_">> \o Str(m.next_variable_id + 1)]

next_id(m) ==
    [m |-> [m EXCEPT !.next_variable_id = @ + 1],
     id |-> <<"_">> \o Str(m.next_variable_id + 1)]

CallDetails(call_id, function_name, args, lineCol) ==
    [call_id |-> call_id, function_name |-> function_name,
     args |-> args, lineCol |-> lineCol]

startCallRegion(m, function_name, args, lineCol) ==
    LET n == next_id(m)
        m1 == [n.m EXCEPT !.callRegionsStack =
                  Append(@, CallDetails(n.id, function_name, args, lineCol))]
        m2 == addChunk(m1, <<"## START CALL REGION: ">> \o n.id \o <<" of ">>
                           \o function_name \o <<" at line ">> \o Str(lineCol[1])
                           \o <<", col ">> \o Str(lineCol[2]) \o <<".">>)
        m3 == addChunk(m2, <<"_orig_trans">> \o n.id \o <<" = trans">>)
        m4 == addChunk(m3, <<"self.transaction = trans = _call">> \o n.id
                           \o <<" = DummyTransaction()">>)
    IN  addChunk(m4, <<"write = trans.write">>)

endCallRegion_body(m, cd) ==
    LET id == cd.call_id
        args == Strip(<<",", " ">> \o cd.args)
        m1 == addChunk(m, <<"self.transaction = trans = _orig_trans">> \o id)
        m2 == addChunk(m1, <<"write = trans.write">>)
        m3 == addChunk(m2, <<"del _orig_trans">> \o id)
        m4 == addChunk(m3, <<"_call_arg">> \o id \o <<" = _call">> \o id
                           \o <<".getvalue()">>)
        m5 == addChunk(m4, <<"del _call">> \o id)
        m6 == addFilteredChunk(m5, cd.function_name \o <<"(_call_arg">> \o id
                                   \o args \o <<")">>, <<>>, <<>>)
        m7 == addChunk(m6, <<"del _call_arg">> \o id)
        m8 == addChunk(m7, <<"## END CALL REGION: ">> \o id \o <<" of ">>
                           \o cd.function_name \o <<" at line ">>
                           \o Str(cd.lineCol[1]) \o <<", col ">>
                           \o Str(cd.lineCol[2]) \o <<".">>)
    IN  addChunk(m8, <<>>)

endCallRegion_popsOldest(m) ==
    IF m.callRegionsStack = <<>>
    THEN Raise(m, "IndexError")
    ELSE Ret(endCallRegion_body([m EXCEPT !.callRegionsStack = Tail(@)],
                                Head(m.callRegionsStack)))

endCallRegion_rejectsOpenFilter(m) ==
    IF m.callRegionsStack = <<>> \/ m.filterRegionsStack # <<>>
    THEN Raise(m, "IndexError")
    ELSE Ret(endCallRegion_body([m EXCEPT !.callRegionsStack = Front(@)],
                                Last(m.callRegionsStack)))

endCallRegion(m) ==
    IF m.callRegionsStack = <<>>
    THEN Raise(m, "IndexError")
    ELSE Ret(endCallRegion_body([m EXCEPT !.callRegionsStack = Front(@)],
                                Last(m.callRegionsStack)))

setFilter(m, filter_name) ==
    LET n == next_id(m)
        m1 == [n.m EXCEPT !.filterRegionsStack = Append(@, n.id)]
        m2 == addChunk(m1, <<"_orig_filter">> \o n.id \o <<" = _filter">>)
    IN  IF Lower(filter_name) = "none"
        THEN addChunk(m2, <<"_filter = self._CHEETAH__initialFilter">>)
        ELSE addChunk(m2, <<"_filter = self._CHEETAH__currentFilter = ",
                            "self._CHEETAH__filters[">>
                          \o PyRepr(<<filter_name>>) \o <<"]">>)

closeFilterBlock(m) ==
    IF m.filterRegionsStack = <<>>
    THEN Raise(m, "IndexError")
    ELSE Ret(addChunk([m EXCEPT !.filterRegionsStack = Front(@)],
                      <<"_filter = self._CHEETAH__currentFilter = _orig_filter">>
                      \o Last(m.filterRegionsStack)))

----------------------------------------------------------------------------
(* LegacyCompiler: rendering a $reference *)

\* a few of dir(builtins)
BUILTIN_NAMES == {"len", "str", "id", "True", "None"}

\* truth value of a Python value
Truthy(v) ==
    CASE v[1] = "bool" -> v[2] = "True"
      [] v[1] = "NoneType" -> FALSE
      [] v[1] = "str" -> v[2] # ""
      [] OTHER -> v[2] # <<>>

PyAnd_or(a, b) == IF Truthy(a) THEN a ELSE b

\* a and b
PyAnd(a, b) == IF Truthy(a) THEN b ELSE a

\* '%s' % v
PyText(v) == <<v[2]>>

Reverse(seq) == [i \in 1..Len(seq) |-> seq[Len(seq) + 1 - i]]

\* the index of the first tok of text, 0 when there is none
RECURSIVE Find(_, _, _)
Find(text, tok, i) ==
    IF i > Len(text) THEN 0
    ELSE IF text[i] = tok THEN i
    ELSE Find(text, tok, i + 1)

\* text.partition('.')
Partition(text) ==
    LET i == Find(text, ".", 1)
    IN  IF i = 0 THEN <<text, <<>>, <<>> >>
        ELSE <<SubSeq(text, 1, i - 1), <<".">>, SubSeq(text, i + 1, Len(text))>>

\* a segment is <<name, useAC, remainderOfExpr>>; these loops pop the
\* reversed list until it is empty
RECURSIVE genPlainVar_loop(_, _)
genPlainVar_loop(pythonCode, nameChunks) ==
    IF nameChunks = <<>> THEN pythonCode
    ELSE genPlainVar_loop(pythonCode \o <<".">> \o Last(nameChunks)[1]
                              \o Last(nameChunks)[3],
                          Front(nameChunks))

\* genPlainVar: the text returned and the caller's list as it is left
genPlainVar(nameChunks) ==
    LET r == Reverse(nameChunks)
    IN  IF r = <<>>
        THEN [ret |-> <<>>, exc |-> "IndexError", nameChunks |-> <<>>]
        ELSE [ret |-> genPlainVar_loop(Last(r)[1] \o Last(r)[3], Front(r)),
              exc |-> "none", nameChunks |-> <<>>]

addGetTextVar_leaves_consumed(nameChunks) == genPlainVar(nameChunks).nameChunks

\* the caller's list as addGetTextVar leaves it: genPlainVar is handed the
\* copy nameChunks[:] and consumes the copy
addGetTextVar_leaves(nameChunks) == nameChunks

addGetTextVar(scannables, nameChunks, lineCol) ==
    Append(scannables,
           genPlainVar(nameChunks).ret \o <<" # generated from line ">>
               \o Str(lineCol[1]) \o <<", col ">> \o Str(lineCol[2]) \o <<".">>)

RECURSIVE genNameMapperVar_loop_alwaysVFN(_, _, _, _)
genNameMapperVar_loop_alwaysVFN(se, pythonCode, nameChunks, optimize_enabled) ==
    IF nameChunks = <<>> THEN pythonCode
    ELSE genNameMapperVar_loop_alwaysVFN(se,
             <<"VFN(">> \o pythonCode \o <<", \"">> \o Last(nameChunks)[1] \o <<"\", ">>
                 \o PyText(IF Truthy(se["useAutocalling"]) THEN Last(nameChunks)[2]
                           ELSE se["useAutocalling"]) \o <<", ">>
                 \o PyText(se["useDottedNotation"]) \o <<")">> \o Last(nameChunks)[3],
             Front(nameChunks), optimize_enabled)

RECURSIVE genNameMapperVar_loop(_, _, _, _)
genNameMapperVar_loop(se, pythonCode, nameChunks, optimize_enabled) ==
    IF nameChunks = <<>> THEN pythonCode
    ELSE LET name == Last(nameChunks)[1]
             useAC == PyAnd(se["useAutocalling"], Last(nameChunks)[2])
             remainder == Last(nameChunks)[3]
         IN  genNameMapperVar_loop(se,
                 IF optimize_enabled
                 THEN pythonCode \o <<".">> \o name \o remainder
                 ELSE <<"VFN(">> \o pythonCode \o <<", \"">> \o name \o <<"\", ">>
                          \o PyText(useAC) \o <<", ">>
                          \o PyText(se["useDottedNotation"]) \o <<")">> \o remainder,
                 Front(nameChunks), optimize_enabled)

genNameMapperVar_first_fullKey(se, chunk, optimize_enabled) ==
    IF optimize_enabled
    THEN <<"VFFSL(", "SL, \"">> \o chunk[1] \o <<"\")">> \o chunk[3]
    ELSE <<"VFFSL(", "SL, \"">> \o chunk[1] \o <<"\", ">>
             \o PyText(IF Truthy(se["useAutocalling"]) THEN chunk[2]
                       ELSE se["useAutocalling"]) \o <<", ">>
             \o PyText(se["useDottedNotation"]) \o <<")">> \o chunk[3]

genNameMapperVar_first(se, chunk, optimize_enabled) ==
    IF optimize_enabled
    THEN <<"VFFSL(", "SL, \"">> \o Partition(chunk[1])[1] \o <<"\")">>
             \o Partition(chunk[1])[2] \o Partition(chunk[1])[3] \o chunk[3]
    ELSE <<"VFFSL(", "SL, \"">> \o chunk[1] \o <<"\", ">>
             \o PyText(PyAnd(se["useAutocalling"], chunk[2])) \o <<", ">>
             \o PyText(se["useDottedNotation"]) \o <<")">> \o chunk[3]

genNameMapperVar(se, nameChunks, optimize_enabled) ==
    LET r == Reverse(nameChunks)
    IN  IF r = <<>>
        THEN [ret |-> <<>>, exc |-> "IndexError", nameChunks |-> <<>>]
        ELSE [ret |-> genNameMapperVar_loop(
                          se, genNameMapperVar_first(se, Last(r), optimize_enabled),
                          Front(r), optimize_enabled),
              exc |-> "none", nameChunks |-> <<>>]

optimize_enabled(se) ==
    /\ Truthy(se["optimize_lookup"])
    /\ ~Truthy(se["useAutocalling"])
    /\ ~Truthy(se["useDottedNotation"])

\* the name a one-token text spells
IsName(text, names) == \E n \in names : text = <<n>>

usePlain_ignoresLocals(se, local_vars, globals, nameChunks, plain) ==
    \/ ~Truthy(se["useNameMapper"])
    \/ plain
    \/ /\ optimize_enabled(se)
       /\ \/ IsName(Partition(nameChunks[1][1])[1], globals)
          \/ IsName(Partition(nameChunks[1][1])[1], BUILTIN_NAMES)

usePlain_ignoresPlainArg(se, local_vars, globals, nameChunks, plain) ==
    \/ ~Truthy(se["useNameMapper"])
    \/ /\ optimize_enabled(se)
       /\ \/ IsName(Partition(nameChunks[1][1])[1], local_vars)
          \/ IsName(Partition(nameChunks[1][1])[1], globals)
          \/ IsName(Partition(nameChunks[1][1])[1], BUILTIN_NAMES)

\* the value genCheetahVar gives its local `plain`
usePlain(se, local_vars, globals, nameChunks, plain) ==
    LET first_accessed_var == Partition(nameChunks[1][1])[1]
    IN  \/ ~Truthy(se["useNameMapper"])
        \/ plain
        \/ /\ optimize_enabled(se)
           /\ \/ IsName(first_accessed_var, local_vars)
              \/ IsName(first_accessed_var, globals)
              \/ IsName(first_accessed_var, BUILTIN_NAMES)

hasGetTextToken_firstOnly(se, nameChunks) ==
    \E k \in 1..Len(se["gettextTokens"][2]) :
        nameChunks[1][1] = se["gettextTokens"][2][k]

\* any(nameChunk[0] in self.setting('gettextTokens') for nameChunk in nameChunks)
hasGetTextToken(se, nameChunks) ==
    \E i \in 1..Len(nameChunks) :
        \E k \in 1..Len(se["gettextTokens"][2]) :
            nameChunks[i][1] = se["gettextTokens"][2][k]

\* genCheetahVar: the text returned, the caller's list as it is left and the
\* scannables list
genCheetahVar(se, local_vars, globals, scannables, nameChunks, lineCol, plain) ==
    IF nameChunks = <<>>
    THEN [ret |-> <<>>, exc |-> "IndexError", nameChunks |-> nameChunks,
          gettext_scannables |-> scannables]
    ELSE LET sc == IF hasGetTextToken(se, nameChunks)
                   THEN addGetTextVar(scannables, nameChunks, lineCol)
                   ELSE scannables
             rest == IF hasGetTextToken(se, nameChunks)
                     THEN addGetTextVar_leaves(nameChunks)
                     ELSE nameChunks
             out == IF usePlain(se, local_vars, globals, nameChunks, plain)
                    THEN genPlainVar(rest)
                    ELSE genNameMapperVar(se, rest, optimize_enabled(se))
         IN  [ret |-> out.ret, exc |-> out.exc, nameChunks |-> out.nameChunks,
              gettext_scannables |-> sc]

----------------------------------------------------------------------------
(* MethodCompiler: final code wrapping *)

_addAutoSetupCode(m) ==
    LET m1 == addChunk(addChunk(addChunk(m, m.initialMethodComment),
                                <<"trans = self.transaction">>),
                       <<"if not trans:">>)
        m2 == dedent(addChunk(addChunk(indent(m1),
                                       <<"self.transaction = trans = DummyTransaction()">>),
                              <<"_dummyTrans = True">>)).m
        m3 == dedent(addChunk(indent(addChunk(m2, <<"else:">>)),
                              <<"_dummyTrans = False">>)).m
        m4 == addChunk(addChunk(addChunk(m3, <<"write = trans.write">>),
                                <<"SL = self._CHEETAH__searchList">>),
                       <<"_filter = self._CHEETAH__currentFilter">>)
    IN  addChunk(addChunk(addChunk(m4, <<>>),
                          <<"## START - generated method body">>),
                 <<>>)

_addAutoCleanupCode_alwaysReturns(m) ==
    LET m2 == addChunk(addChunk(addChunk(addChunk(m, <<>>),
                                         <<"## END - generated method body">>),
                                <<>>),
                       <<"if _dummyTrans:">>)
        m3 == addChunk(addChunk(indent(m2), <<"self.transaction = None">>),
                       <<"return trans.getvalue()">>)
    IN  dedent(addChunk(indent(addChunk(dedent(m3).m, <<"else:">>)),
                        <<"return NO_CONTENT">>)).m

_addAutoCleanupCode(m) ==
    LET m1 == addChunk(addChunk(m, <<>>), <<"## END - generated method body">>)
        m2 == addChunk(addChunk(m1, <<>>), <<"if _dummyTrans:">>)
        m3 == dedent(addChunk(addChunk(indent(m2), <<"self.transaction = None">>),
                              <<"return trans.getvalue()">>)).m
        m4 == dedent(addChunk(indent(addChunk(m3, <<"else:">>)),
                              <<"return NO_CONTENT">>)).m
    IN  IF m.isGenerator THEN m1 ELSE m4

\* MethodCompiler.cleanupState
cleanupState(m) ==
    LET m1 == [commitStrConst(m) EXCEPT !.indentLev = 2]
        mainBodyChunks == m1.methodBodyChunks
        m2 == _addAutoSetupCode([m1 EXCEPT !.methodBodyChunks = <<>>])
    IN  _addAutoCleanupCode([m2 EXCEPT !.methodBodyChunks = @ \o mainBodyChunks])

setMethodName(m, name) == [m EXCEPT !.methodName = name]

\* name.lstrip('*') on the one-token names the model feeds it
LStripStars(tok) ==
    CASE tok = "*args" -> "args"
      [] tok = "**kwargs" -> "kwargs"
      [] OTHER -> tok

addMethArg(m, name, val) ==
    [m EXCEPT !.arguments = Append(@, <<name, val>>),
              !.local_vars = @ \cup {LStripStars(name)}]

\* a default of "None" stands for the value None
_arg_chunk_to_text(chunk) ==
    IF chunk[2] # "None" THEN <<chunk[1], "=", chunk[2]>> ELSE <<chunk[1]>>

\* sep.join(texts)
RECURSIVE JoinWith(_, _)
JoinWith(sep, texts) ==
    IF texts = <<>> THEN <<>>
    ELSE IF Len(texts) = 1 THEN Head(texts)
    ELSE Head(texts) \o sep \o JoinWith(sep, Tail(texts))

arg_string_list_to_text(arg_string_list) ==
    JoinWith(<<", ">>, [i \in 1..Len(arg_string_list) |->
                           _arg_chunk_to_text(arg_string_list[i])])

methodSignature(m) ==
    Join([i \in 1..Len(m.decorators) |-> INDENT \o m.decorators[i] \o <<"\n">>])
    \o INDENT \o <<"def ", m.methodName, "(">>
    \o arg_string_list_to_text(m.arguments) \o <<"):">>

methodDef(m) ==
    methodSignature(commitStrConst(m)) \o Join(commitStrConst(m).methodBodyChunks)

----------------------------------------------------------------------------
(* ClassCompiler; its MethodCompilers are objects, held here by identity *)

CLASS_NAME == "YelpCheetahTemplate"

BASE_CLASS_NAME == "YelpCheetahBaseClass"

MAIN_METHOD_COMMENT == <<"## CHEETAH: main method generated for this template">>

\* The result of a ClassCompiler call that may raise
CRet(c) == [c |-> c, exc |-> "none"]

CRaise(c, exc) == [c |-> c, exc |-> exc]

_spawnMethodCompiler_keepsQueue(c, methodName, initialMethodComment) ==
    [c EXCEPT !.methodCompilers =
                  Append(@, NewMethodCompiler(methodName, initialMethodComment,
                                              c.decoratorsForNextMethod)),
              !.activeMethodsList = Append(@, Len(c.methodCompilers) + 1)]

_spawnMethodCompiler(c, methodName, initialMethodComment) ==
    [c EXCEPT !.methodCompilers =
                  Append(@, NewMethodCompiler(methodName, initialMethodComment,
                                              c.decoratorsForNextMethod)),
              !.decoratorsForNextMethod = <<>>,
              !.activeMethodsList = Append(@, Len(c.methodCompilers) + 1)]

NewClassCompiler(main_method_name) ==
    LET c == _spawnMethodCompiler(
                 [ mainMethodName |-> main_method_name,
                   decoratorsForNextMethod |-> <<>>,
                   activeMethodsList |-> <<>>,
                   attrs |-> <<>>,
                   finishedMethodsList |-> <<>>,
                   main_method |-> 0,
                   methodCompilers |-> <<>> ],
                 main_method_name, MAIN_METHOD_COMMENT)
    IN  [c EXCEPT !.main_method = Last(c.activeMethodsList)]

\* no ClassCompiler has been spawned
NoClassCompiler == [ activeMethodsList |-> <<>>, finishedMethodsList |-> <<>>,
                     methodCompilers |-> <<>> ]

_getActiveMethodCompiler(c) == c.methodCompilers[Last(c.activeMethodsList)]

SetActive_bottom(c, m) == [c EXCEPT !.methodCompilers[Head(c.activeMethodsList)] = m]

\* the MethodCompiler that __getattr__ reaches takes the state m
SetActive(c, m) == [c EXCEPT !.methodCompilers[Last(c.activeMethodsList)] = m]

_popActiveMethodCompiler(c) == [c EXCEPT !.activeMethodsList = Front(@)]

_swallowMethodCompiler_prepends(c, methodCompiler) ==
    [c EXCEPT !.methodCompilers[methodCompiler] = cleanupState(@),
              !.finishedMethodsList = <<methodCompiler>> \o @]

_swallowMethodCompiler(c, methodCompiler) ==
    [c EXCEPT !.methodCompilers[methodCompiler] = cleanupState(@),
              !.finishedMethodsList = Append(@, methodCompiler)]

CC_cleanupState_once(c) ==
    IF c.activeMethodsList = <<>> THEN c
    ELSE _swallowMethodCompiler(_popActiveMethodCompiler(c), Last(c.activeMethodsList))

RECURSIVE CC_cleanupState(_)
CC_cleanupState(c) ==
    IF c.activeMethodsList = <<>> THEN c
    ELSE CC_cleanupState(_swallowMethodCompiler(_popActiveMethodCompiler(c),
                                                Last(c.activeMethodsList)))

setMainMethodName(c, methodName) ==
    [c EXCEPT !.methodCompilers[c.main_method] = setMethodName(@, methodName)]

RECURSIVE addMethArgs(_, _)
addMethArgs(m, argsList) ==
    IF argsList = <<>> THEN m
    ELSE addMethArgs(addMethArg(m, Head(argsList)[1], Head(argsList)[2]),
                     Tail(argsList))

startMethodDef(c, methodName, argsList, parserComment) ==
    LET c1 == _spawnMethodCompiler(c, methodName, parserComment)
    IN  SetActive(c1, addMethArgs(_getActiveMethodCompiler(c1), argsList))

addDecorator(c, decorator_expr) ==
    [c EXCEPT !.decoratorsForNextMethod = Append(@, decorator_expr)]

closeDef(c) ==
    IF c.activeMethodsList = <<>> THEN CRaise(c, "IndexError")
    ELSE LET c1 == SetActive(c, commitStrConst(_getActiveMethodCompiler(c)))
         IN  CRet(_swallowMethodCompiler(_popActiveMethodCompiler(c1),
                                         Last(c1.activeMethodsList)))

\* the call of the block is added to the method that is then active; with
\* none left the lookup of addChunk raises, the block already swallowed
closeBlock(c) ==
    IF c.activeMethodsList = <<>> THEN CRaise(c, "IndexError")
    ELSE LET c1 == SetActive(c, commitStrConst(_getActiveMethodCompiler(c)))
             methodName == _getActiveMethodCompiler(c1).methodName
             c2 == _swallowMethodCompiler(_popActiveMethodCompiler(c1),
                                          Last(c1.activeMethodsList))
         IN  IF c2.activeMethodsList = <<>> THEN CRaise(c2, "IndexError")
             ELSE CRet(SetActive(c2, addChunk(_getActiveMethodCompiler(c2),
                                              <<"self.", methodName, "()">>)))

attributes(c) ==
    IF c.attrs # <<>>
    THEN JoinWith(<<"\n">>, [i \in 1..Len(c.attrs) |-> INDENT \o c.attrs[i]])
         \o <<"\n">>
    ELSE <<>>

methodDefs(c) ==
    JoinWith(<<"\n", "\n">>,
             [i \in 1..Len(c.finishedMethodsList) |->
                 methodDef(c.methodCompilers[c.finishedMethodsList[i]])])

class_def(c) ==
    JoinWith(<<"\n">>,
             << <<"class ", CLASS_NAME, "(", BASE_CLASS_NAME, "):", "\n">>,
                attributes(c), methodDefs(c) >>)

----------------------------------------------------------------------------
(* LegacyCompiler: imports, extends and the module code *)

\* get_imported_names(imp_statement): the names the statement binds
get_imported_names(imp_statement) ==
    IF Contains(imp_statement, " as ") THEN {Last(imp_statement)}
    ELSE IF Head(imp_statement) = "import " THEN {imp_statement[2]}
    ELSE {Last(imp_statement)}

\* The result of a LegacyCompiler call: the ClassCompiler, the import list,
\* the base import and the global names it leaves, the exception raised
LRet(c, imports, base, globals, exc) ==
    [c |-> c, importStatements |-> imports, base_import |-> base,
     global_vars |-> globals, exc |-> exc]

addImportedVarNames_alwaysInline(se, c, imports, base, globals, varNames, raw_statement) ==
    IF varNames = {} THEN LRet(c, imports, base, globals, "none")
    ELSE IF ~Truthy(se["useLegacyImportMode"])
    THEN IF c.activeMethodsList = <<>>
         THEN LRet(c, imports, base, globals, "IndexError")
         ELSE LRet(SetActive(c, addChunk(_getActiveMethodCompiler(c), raw_statement)),
                   imports, base, globals, "none")
    ELSE LRet(c, imports, base, globals \cup varNames, "none")

\* self._methodBodyChunks and self.addChunk reach the active MethodCompiler
addImportedVarNames(se, c, imports, base, globals, varNames, raw_statement) ==
    IF varNames = {} THEN LRet(c, imports, base, globals, "none")
    ELSE IF ~Truthy(se["useLegacyImportMode"])
    THEN IF raw_statement # <<>>
         THEN IF c.activeMethodsList = <<>>
              THEN LRet(c, imports, base, globals, "IndexError")
              ELSE IF _getActiveMethodCompiler(c).methodBodyChunks # <<>>
              THEN LRet(SetActive(c, addChunk(_getActiveMethodCompiler(c), raw_statement)),
                        imports, base, globals, "none")
              ELSE LRet(c, imports, base, globals, "none")
         ELSE LRet(c, imports, base, globals, "none")
    ELSE LRet(c, imports, base, globals \cup varNames, "none")

_add_import_statement_alwaysHoists(se, c, imports, base, globals, imp_statement, line_col) ==
    IF c.activeMethodsList = <<>>
    THEN LRet(c, imports, base, globals, "IndexError")
    ELSE addImportedVarNames(se, c, Append(imports, imp_statement), base, globals,
                             get_imported_names(imp_statement), imp_statement)

_add_import_statement(se, c, imports, base, globals, imp_statement, line_col) ==
    IF c.activeMethodsList = <<>>
    THEN LRet(c, imports, base, globals, "IndexError")
    ELSE addImportedVarNames(
             se, c,
             IF _getActiveMethodCompiler(c).methodBodyChunks = <<>>
                \/ Truthy(se["useLegacyImportMode"])
             THEN Append(imports, imp_statement) ELSE imports,
             base, globals, get_imported_names(imp_statement), imp_statement)

\* the source under compilation, as the methods it defines one after another
original_source == <<"a", "b">>

\* the names of the startMethodDef calls a parse of the source makes
get_defined_method_names(source) == {source[i] : i \in DOMAIN source}

set_extends_checksFirst(se, c, imports, base, globals, extends_name) ==
    IF extends_name \in globals
    THEN LRet(c, imports, base, globals, "AssertionError")
    ELSE LRet(setMainMethodName(c, se["mainMethodNameForSubclasses"][2]), imports,
              <<"from ", extends_name, " import ", CLASS_NAME, " as ", BASE_CLASS_NAME>>,
              IF extends_name = "Cheetah.partial_template"
              THEN globals \cup get_defined_method_names(original_source)
              ELSE globals,
              "none")

set_extends(se, c, imports, base, globals, extends_name) ==
    LET c1 == setMainMethodName(c, se["mainMethodNameForSubclasses"][2])
    IN  IF extends_name \in globals
        THEN LRet(c1, imports, base, globals, "AssertionError")
        ELSE LRet(c1, imports,
                  <<"from ", extends_name, " import ", CLASS_NAME, " as ",
                    BASE_CLASS_NAME>>,
                  IF extends_name = "Cheetah.partial_template"
                  THEN globals \cup get_defined_method_names(original_source)
                  ELSE globals,
                  "none")

\* LegacyCompiler.gettext_scannables()
gettext_scannables_text(scannables) ==
    IF scannables # <<>>
    THEN JoinWith(<<"\n">>,
                  << <<"\n", "def __CHEETAH_gettext_scannables():">> >>
                  \o [i \in 1..Len(scannables) |-> INDENT \o scannables[i]])
         \o <<"\n", "\n">>
    ELSE <<>>

moduleDef_reversed(imports, base, class_def_text, scannables) ==
    <<"from __future__ import unicode_literals", "\n">>
    \o JoinWith(<<"\n">>, Reverse(imports)) \o <<"\n">>
    \o base \o <<"\n", "\n", "\n">>
    \o <<"# This is compiled yelp_cheetah sourcecode", "\n",
         "__YELP_CHEETAH__ = True", "\n", "\n", "\n">>
    \o class_def_text \o <<"\n", "\n">>
    \o scannables
    \o <<"if __name__ == '__main__':", "\n",
         "    ", "from os import environ", "\n",
         "    ", "from sys import stdout", "\n",
         "    ", "stdout.write(", CLASS_NAME, "(searchList=[environ]).respond())",
         "\n">>

\* _set_class_compiler: what its finally clause leaves in _class_compiler
_set_class_compiler_exit_keeps(orig, current) == current

_set_class_compiler_exit(orig, current) == orig

\* the template of getModuleCode, dedented, stripped and filled in
moduleDef(imports, base, class_def_text, scannables) ==
    <<"from __future__ import unicode_literals", "\n">>
    \o JoinWith(<<"\n">>, imports) \o <<"\n">>
    \o base \o <<"\n", "\n", "\n">>
    \o <<"# This is compiled yelp_cheetah sourcecode", "\n",
         "__YELP_CHEETAH__ = True", "\n", "\n", "\n">>
    \o class_def_text \o <<"\n", "\n">>
    \o scannables
    \o <<"if __name__ == '__main__':", "\n",
         "    ", "from os import environ", "\n",
         "    ", "from sys import stdout", "\n",
         "    ", "stdout.write(", CLASS_NAME, "(searchList=[environ]).respond())",
         "\n">>

----------------------------------------------------------------------------
(* Inputs of the settings store operations *)

SettingNames == {"useNameMapper", "mainMethodName", "noSuchSetting"}

SettingValues == {PyTrue, PyNone, PyStr("writeBody")}

RECURSIVE Pushed(_)
Pushed(names) ==
    IF names = {} THEN 0
    ELSE LET n == CHOOSE x \in names : TRUE
         IN  Len(StackGet(stacks, n)) + Pushed(names \ {n})

Call(op, name, value, out) ==
    [op |-> op, name |-> name, value |-> value, exc |-> out.exc, ret |-> out.ret]

\* LegacyCompiler(source, settings): the defaults, then updateSettings(settings)
InitWith(original_settings) ==
    /\ settings = [n \in DOMAIN DEFAULT_COMPILER_SETTINGS |->
                      IF n \in DOMAIN original_settings THEN original_settings[n]
                      ELSE DEFAULT_COMPILER_SETTINGS[n]]
    /\ stacks = <<>>
    /\ held = [n \in SettingNames |-> <<>>]
    /\ mc = NewMethodCompiler(settings["mainMethodName"][2], MAIN_METHOD_COMMENT, <<>>)
    /\ global_vars = {"DummyTransaction", "NO_CONTENT", "VFN", "VFFSL"}
    /\ gettext_scannables = <<>>
    /\ class_compiler = "None"
    /\ cc = NoClassCompiler
    /\ importStatements =
           << <<"from ", "Cheetah.DummyTransaction", " import ", "DummyTransaction">>,
              <<"from ", "Cheetah.NameMapper", " import ", "valueForName", " as ", "VFN">>,
              <<"from ", "Cheetah.NameMapper", " import ", "valueFromFrameOrSearchList",
                " as ", "VFFSL">>,
              <<"from ", "Cheetah.Template", " import ", "NO_CONTENT">> >>
    /\ base_import = <<"from ", "Cheetah.Template", " import ", CLASS_NAME,
                       " as ", BASE_CLASS_NAME>>
    /\ pc = [at |-> "constructed"]
    /\ nops = 0
    /\ call = [op |-> "init", name |-> "", value |-> NoValue,
               exc |-> "none", ret |-> NoValue]

Init == InitWith(<<>>)

Setting(name) ==
    LET out == setting(settings, stacks, name)
    IN  /\ call' = Call("setting", name, NoValue, out)
        /\ settings' = out.settings
        /\ stacks' = out.stacks
        /\ UNCHANGED <<held, mc, compilerVars, moduleVars>>
        /\ nops' = nops

SetSetting(name, value) ==
    LET out == setSetting(settings, stacks, name, value)
    IN  /\ call' = Call("setSetting", name, value, out)
        /\ settings' = out.settings
        /\ stacks' = out.stacks
        /\ UNCHANGED <<held, mc, compilerVars, moduleVars>>
        /\ nops' = nops

PushSetting(name, value) ==
    LET out == pushSetting(settings, stacks, name, value)
    IN  /\ Pushed(SettingNames) < MaxPushed
        /\ call' = Call("pushSetting", name, value, out)
        /\ settings' = out.settings
        /\ stacks' = out.stacks
        /\ held' = IF out.exc = "none"
                   THEN [held EXCEPT ![name] = Append(@, settings[name])]
                   ELSE held
        /\ UNCHANGED <<mc, compilerVars, moduleVars, nops>>

PopSetting(name) ==
    LET out == popSetting(settings, stacks, name)
    IN  /\ call' = Call("popSetting", name, NoValue, out)
        /\ settings' = out.settings
        /\ stacks' = out.stacks
        /\ held' = IF out.exc = "none"
                   THEN [held EXCEPT ![name] = Front(@)]
                   ELSE held
        /\ UNCHANGED <<mc, compilerVars, moduleVars, nops>>

NextSettings ==
    \/ \E name \in SettingNames : Setting(name)
    \/ \E name \in SettingNames, value \in SettingValues : SetSetting(name, value)
    \/ \E name \in SettingNames, value \in SettingValues : PushSetting(name, value)
    \/ \E name \in SettingNames : PopSetting(name)

SpecSettings == Init /\ [][NextSettings]_vars

----------------------------------------------------------------------------
(* Bulk updates of the settings store *)

\* the mappings handed to updateSettings
NewSettings ==
    UNION {[names -> SettingValues] : names \in SUBSET SettingNames \ {{}}}

ConfigLines ==
    { <<"useNameMapper", " ", "=", " ", "true">>,
      <<"mainMethodName", " ", "=", " ", "none">>,
      <<"optimize_lookup", " ", "=", " ", "3">>,
      <<" ", "useNameMapper", "=", "FALSE", " ">>,
      <<"noSuchSetting", "=", "x", "=", "y">>,
      <<"useAutocalling">> }

\* the texts of n lines, each line ended by a line break
RECURSIVE ConfigTexts(_)
ConfigTexts(n) ==
    IF n = 0 THEN {<<>>}
    ELSE {line \o <<"\n">> \o rest : line \in ConfigLines, rest \in ConfigTexts(n - 1)}

UpdateSettings(new_settings) ==
    /\ nops + Cardinality(DOMAIN new_settings) <= MaxLines
    /\ \E items \in dict_items(new_settings) :
        LET out == updateSettings(settings, stacks, items)
        IN  /\ nops' = nops + Len(items)
            /\ call' = [op |-> "updateSettings", items |-> items, exc |-> out.exc]
            /\ settings' = out.settings
            /\ stacks' = out.stacks
            /\ UNCHANGED <<held, mc, compilerVars, moduleVars>>

UpdateSettingsFromConfigStr(config_str) ==
    /\ LET values == config_values(config_str)
       IN  /\ nops + Len(values) <= MaxLines
           /\ \E items \in IF \A i \in DOMAIN values : Len(values[i]) = 2
                            THEN dict_items(config_settings(values)) ELSE {<<>>} :
               LET out == updateSettingsFromConfigStr(settings, stacks, config_str, items)
               IN  /\ nops' = nops + Len(values)
                   /\ call' = [op |-> "updateSettingsFromConfigStr",
                               config_str |-> config_str, items |-> items,
                               exc |-> out.exc]
                   /\ settings' = out.settings
                   /\ stacks' = out.stacks
                   /\ UNCHANGED <<held, mc, compilerVars, moduleVars>>

NextUpdate ==
    \/ \E new_settings \in NewSettings : UpdateSettings(new_settings)
    \/ \E n \in 1..(MaxLines - nops) : \E config_str \in ConfigTexts(n) :
            UpdateSettingsFromConfigStr(config_str)

SpecUpdate == Init /\ [][NextUpdate]_vars

----------------------------------------------------------------------------
(* The parse callbacks that reach the current MethodCompiler *)

StrConsts == {<<"Hello ">>, <<"it", "'", "s", "\n">>}

SetExprs == {<<"x", " = ", "1">>}

ReturnExprs == {<<"return ", "x">>}

YieldExprs == {<<"yield ", "x">>}

FunctionNames == {<<"self", ".", "wrap">>}

ArgTexts == {<<>>, <<"a", ",", " ", "b=2", " ">>}

FilterNames == {"None", "WebSafe"}

LineCols == {<<4, 1>>}

\* a call on the MethodCompiler: mc becomes what the call leaves
MethodCall(op, out) ==
    /\ nops < MaxOps
    /\ mc' = out.m
    /\ nops' = IF out.exc = "none" THEN nops + 1 ELSE nops
    /\ call' = [op |-> op, exc |-> out.exc]
    /\ UNCHANGED <<storeVars, compilerVars, moduleVars>>

AddStrConst(strConst) == MethodCall("addStrConst", Ret(addStrConst(mc, strConst)))

AddSet(expr, lineCol) == MethodCall("addSet", Ret(add_with_line_col(mc, expr, lineCol)))

AddReturn(expr, lineCol) == MethodCall("addReturn", addReturn(mc, expr, lineCol))

AddYield(expr, lineCol) == MethodCall("addYield", addYield(mc, expr, lineCol))

StartCallRegion(function_name, args, lineCol) ==
    MethodCall("startCallRegion", Ret(startCallRegion(mc, function_name, args, lineCol)))

EndCallRegion == MethodCall("endCallRegion", endCallRegion(mc))

SetFilter(filter_name) == MethodCall("setFilter", Ret(setFilter(mc, filter_name)))

CloseFilterBlock == MethodCall("closeFilterBlock", closeFilterBlock(mc))

NextMethod ==
    \/ \E strConst \in StrConsts : AddStrConst(strConst)
    \/ \E expr \in SetExprs, lineCol \in LineCols : AddSet(expr, lineCol)
    \/ \E expr \in ReturnExprs, lineCol \in LineCols : AddReturn(expr, lineCol)
    \/ \E expr \in YieldExprs, lineCol \in LineCols : AddYield(expr, lineCol)
    \/ \E function_name \in FunctionNames, args \in ArgTexts, lineCol \in LineCols :
            StartCallRegion(function_name, args, lineCol)
    \/ EndCallRegion
    \/ \E filter_name \in FilterNames : SetFilter(filter_name)
    \/ CloseFilterBlock

SpecMethod == Init /\ [][NextMethod]_vars

----------------------------------------------------------------------------
(* The parse callbacks that move the indentation of a MethodCompiler *)

IfExprs == {<<"if ", "x">>}

ElseExprs == {<<"else">>}

Indent == MethodCall("indent", Ret(indent(mc)))

Dedent == MethodCall("dedent", dedent(mc))

AddIf(expr, lineCol) == MethodCall("addIf", _add_indenting_directive(mc, expr, lineCol))

AddElse(expr, lineCol) ==
    MethodCall("addElse", addReIndentingDirective(mc, expr, lineCol, TRUE))

NextIndent ==
    \/ \E strConst \in StrConsts : AddStrConst(strConst)
    \/ Indent
    \/ Dedent
    \/ \E expr \in IfExprs, lineCol \in LineCols : AddIf(expr, lineCol)
    \/ \E expr \in ElseExprs, lineCol \in LineCols : AddElse(expr, lineCol)
    \/ \E expr \in SetExprs, lineCol \in LineCols : AddSet(expr, lineCol)

SpecIndent == Init /\ [][NextIndent]_vars

----------------------------------------------------------------------------
(* A MethodCompiler is fed and then finalized, as _swallowMethodCompiler     *)
(* does once with each; nothing reaches a finalized MethodCompiler           *)

\* the MethodCompiler has not been finalized
Feeding == call.op # "cleanupState"

CleanupState ==
    /\ Feeding
    /\ MethodCall("cleanupState", Ret(cleanupState(mc)))

NextFinal ==
    \/ Feeding /\ \E strConst \in StrConsts : AddStrConst(strConst)
    \/ Feeding /\ \E expr \in SetExprs, lineCol \in LineCols : AddSet(expr, lineCol)
    \/ Feeding /\ \E expr \in ReturnExprs, lineCol \in LineCols : AddReturn(expr, lineCol)
    \/ Feeding /\ \E expr \in YieldExprs, lineCol \in LineCols : AddYield(expr, lineCol)
    \/ Feeding /\ \E expr \in IfExprs, lineCol \in LineCols : AddIf(expr, lineCol)
    \/ CleanupState

SpecFinal == Init /\ [][NextFinal]_vars

----------------------------------------------------------------------------
(* getModuleCode: the ClassCompiler is spawned and set, the parser calls     *)
(* back, the ClassCompiler is cleaned up and unset, the module is rendered   *)

ParserComments == {<<"## CHEETAH: generated from #def at line 1, col 1.">>}

ArgsLists == {<< <<"x", "None">> >>}

MethodNames == get_defined_method_names(original_source)

ImportStatements ==
    { <<"import ", "base">>,
      <<"from ", "os", " import ", "path", " as ", "p">> }

ExtendsNames == {"templates.base", "base", "Cheetah.partial_template", "VFN"}

DecoratorExprs == {<<"@", "staticmethod">>, <<"@", "cached">>}

GetTextChunks ==
    { << << <<"_">>, PyFalse, <<"('hi')">> >> >>,
      << << <<"len">>, PyFalse, <<"(v)">> >> >> }

\* lines 743-744: _spawnClassCompiler, then _set_class_compiler entered
GetModuleCode ==
    /\ pc.at = "constructed"
    /\ cc' = NewClassCompiler(settings["mainMethodName"][2])
    /\ class_compiler' = "class_compiler"
    /\ pc' = [at |-> "parsing", orig |-> class_compiler]
    /\ call' = [op |-> "_set_class_compiler", exc |-> "none"]
    /\ UNCHANGED <<storeVars, mc, compilerVars, importStatements, base_import, nops>>

\* A callback of the parser; an exception it raises leaves parse() and the
\* with block, whose finally clause runs, and then getModuleCode
Callback(op, arg, out, scannables) ==
    /\ pc.at = "parsing"
    /\ nops < MaxCallbacks
    /\ nops' = nops + 1
    /\ cc' = out.c
    /\ importStatements' = out.importStatements
    /\ base_import' = out.base_import
    /\ global_vars' = out.global_vars
    /\ gettext_scannables' = scannables
    /\ IF out.exc = "none"
       THEN UNCHANGED <<class_compiler, pc>>
       ELSE /\ class_compiler' = _set_class_compiler_exit(pc.orig, class_compiler)
            /\ pc' = [pc EXCEPT !.at = "raised"]
    /\ call' = [op |-> op, arg |-> arg, exc |-> out.exc]
    /\ UNCHANGED <<storeVars, mc>>

\* a call that only the ClassCompiler and its MethodCompilers see
FromClass(r) == LRet(r.c, importStatements, base_import, global_vars, r.exc)

\* __getattr__: the call reaches the MethodCompiler on top of the active list
Delegate(c, Method(_)) ==
    IF c.activeMethodsList = <<>> THEN CRaise(c, "IndexError")
    ELSE LET r == Method(_getActiveMethodCompiler(c))
         IN  [c |-> SetActive(c, r.m), exc |-> r.exc]

ParseStartMethodDef(methodName, argsList, parserComment) ==
    Callback("startMethodDef", methodName,
             FromClass(CRet(startMethodDef(cc, methodName, argsList, parserComment))),
             gettext_scannables)

ParseAddDecorator(decorator_expr) ==
    Callback("addDecorator", decorator_expr,
             FromClass(CRet(addDecorator(cc, decorator_expr))), gettext_scannables)

ParseCloseDef == Callback("closeDef", <<>>, FromClass(closeDef(cc)), gettext_scannables)

ParseCloseBlock ==
    Callback("closeBlock", <<>>, FromClass(closeBlock(cc)), gettext_scannables)

ParseStartCallRegion(function_name, args, lineCol) ==
    Callback("startCallRegion", function_name,
             FromClass(Delegate(cc, LAMBDA m :
                                    Ret(startCallRegion(m, function_name, args, lineCol)))),
             gettext_scannables)

ParseEndCallRegion ==
    Callback("endCallRegion", <<>>, FromClass(Delegate(cc, endCallRegion)),
             gettext_scannables)

ParseSetFilter(filter_name) ==
    Callback("setFilter", filter_name,
             FromClass(Delegate(cc, LAMBDA m : Ret(setFilter(m, filter_name)))),
             gettext_scannables)

ParseCloseFilterBlock ==
    Callback("closeFilterBlock", <<>>, FromClass(Delegate(cc, closeFilterBlock)),
             gettext_scannables)

ParseAddSet(expr, lineCol) ==
    Callback("addSet", expr,
             FromClass(Delegate(cc, LAMBDA m : Ret(add_with_line_col(m, expr, lineCol)))),
             gettext_scannables)

ParseAddImport(imp_statement, lineCol) ==
    Callback("addImport", imp_statement,
             _add_import_statement(settings, cc, importStatements, base_import,
                                   global_vars, imp_statement, lineCol),
             gettext_scannables)

ParseSetExtends(extends_name) ==
    Callback("set_extends", extends_name,
             set_extends(settings, cc, importStatements, base_import, global_vars,
                         extends_name),
             gettext_scannables)

\* self._local_vars is looked up only when the first two tests of plain fail
ParseGenCheetahVar(nameChunks, lineCol) ==
    LET needs_locals == /\ Truthy(settings["useNameMapper"])
                        /\ optimize_enabled(settings)
        out == IF cc.activeMethodsList = <<>> /\ needs_locals
               THEN [exc |-> "IndexError", gettext_scannables |->
                        IF hasGetTextToken(settings, nameChunks)
                        THEN addGetTextVar(gettext_scannables, nameChunks, lineCol)
                        ELSE gettext_scannables]
               ELSE genCheetahVar(settings,
                                  IF cc.activeMethodsList = <<>> THEN {}
                                  ELSE _getActiveMethodCompiler(cc).local_vars,
                                  global_vars, gettext_scannables, nameChunks,
                                  lineCol, FALSE)
    IN  Callback("genCheetahVar", nameChunks, FromClass([c |-> cc, exc |-> out.exc]),
                 out.gettext_scannables)

\* lines 745-775: parse() returns, cleanupState, the with block is left, the
\* module text is rendered and returned
GetModuleCode_return ==
    /\ pc.at = "parsing"
    /\ cc' = CC_cleanupState(cc)
    /\ class_compiler' = _set_class_compiler_exit(pc.orig, class_compiler)
    /\ pc' = [pc EXCEPT !.at = "returned"]
    /\ call' = [op |-> "getModuleCode", exc |-> "none",
                ret |-> moduleDef(importStatements, base_import, class_def(cc'),
                                  gettext_scannables_text(gettext_scannables))]
    /\ UNCHANGED <<storeVars, mc, compilerVars, importStatements, base_import, nops>>

NextClass ==
    \/ GetModuleCode
    \/ \E methodName \in MethodNames, argsList \in ArgsLists,
          parserComment \in ParserComments :
            ParseStartMethodDef(methodName, argsList, parserComment)
    \/ \E decorator_expr \in DecoratorExprs : ParseAddDecorator(decorator_expr)
    \/ ParseCloseDef
    \/ ParseCloseBlock
    \/ \E function_name \in FunctionNames, lineCol \in LineCols :
            ParseStartCallRegion(function_name, <<>>, lineCol)
    \/ ParseEndCallRegion
    \/ ParseSetFilter("WebSafe")
    \/ ParseCloseFilterBlock
    \/ GetModuleCode_return

SpecClass == Init /\ [][NextClass]_vars

InitModule == \E useLegacyImportMode \in {PyTrue, PyFalse} :
                  InitWith([useLegacyImportMode |-> useLegacyImportMode])

NextModule ==
    \/ GetModuleCode
    \/ \E imp_statement \in ImportStatements, lineCol \in LineCols :
            ParseAddImport(imp_statement, lineCol)
    \/ \E extends_name \in ExtendsNames : ParseSetExtends(extends_name)
    \/ \E expr \in SetExprs, lineCol \in LineCols : ParseAddSet(expr, lineCol)
    \/ \E nameChunks \in GetTextChunks, lineCol \in LineCols :
            ParseGenCheetahVar(nameChunks, lineCol)
    \/ GetModuleCode_return

SpecModule == InitModule /\ [][NextModule]_vars

----------------------------------------------------------------------------
(* Rendering references under every combination of the lookup settings *)

LookupSettings == {"useNameMapper", "useAutocalling", "useDottedNotation",
                   "optimize_lookup"}

FirstChunks ==
    { << <<"self", ".", "b">>, PyTrue, <<"[1]">> >>,
      << <<"_">>, PyFalse, <<"('hi')">> >>,
      << <<"_", ".", "x">>, PyTrue, <<>> >>,
      << <<"len">>, PyFalse, <<"(v)">> >>,
      << <<"NO_CONTENT">>, PyTrue, <<>> >> }

LaterChunks ==
    { << <<"d">>, PyFalse, <<"()">> >>,
      << <<"gettext">>, PyTrue, <<>> >> }

RECURSIVE ChunkLists(_)
ChunkLists(n) ==
    IF n <= 1 THEN {<<c>> : c \in FirstChunks}
    ELSE LET shorter == ChunkLists(n - 1)
         IN  shorter \cup {Append(l, c) : l \in {x \in shorter : Len(x) = n - 1},
                                          c \in LaterChunks}

NameChunkInputs == ChunkLists(MaxSegs)

GenCheetahVar(nameChunks, lineCol, plain) ==
    /\ nops < MaxVarCalls
    /\ \E out \in {genCheetahVar(settings, mc.local_vars, global_vars,
                                  gettext_scannables, nameChunks, lineCol, plain)} :
        /\ nops' = nops + 1
        /\ gettext_scannables' = out.gettext_scannables
        /\ call' = [op |-> "genCheetahVar", nameChunks |-> nameChunks,
                    lineCol |-> lineCol, plain |-> plain, exc |-> out.exc,
                    ret |-> out.ret, left |-> out.nameChunks]
        /\ UNCHANGED <<storeVars, mc, global_vars, moduleVars>>

InitVar == \E original_settings \in [LookupSettings -> {PyTrue, PyFalse}] :
               InitWith(original_settings)

NextVar ==
    \E nameChunks \in NameChunkInputs, lineCol \in LineCols, plain \in BOOLEAN :
            GenCheetahVar(nameChunks, lineCol, plain)

SpecVar == InitVar /\ [][NextVar]_vars

----------------------------------------------------------------------------
(* Claims about the settings store *)

\* C1: for a declared key k, setSetting(k, v) returns and a following
\* setting(k) returns v; for a key that was never declared it raises
\* UnexpectedSettingName and leaves every key/value, the set of declared
\* keys and the override stacks as they were.
C1_SetThenRead ==
    [][call'.op = "setSetting" =>
        IF call'.name \in DOMAIN settings
        THEN /\ call'.exc = "none"
             /\ setting(settings', stacks', call'.name).exc = "none"
             /\ setting(settings', stacks', call'.name).ret = call'.value
        ELSE /\ call'.exc = "UnexpectedSettingName"
             /\ DOMAIN settings' = DOMAIN settings
             /\ settings' = settings
             /\ stacks' = stacks]_vars

\* a write of an undeclared key was rejected in a store that already holds
\* a non-default value written earlier
C1_Witness ==
    /\ call.op = "setSetting"
    /\ call.exc = "UnexpectedSettingName"
    /\ call.name \notin DOMAIN settings
    /\ settings["useNameMapper"] = PyNone
    /\ settings["mainMethodName"] = PyTrue

\* C2: every popSetting(k) that returns leaves k at the value it held
\* immediately before the matching pushSetting(k, _) (the innermost one still
\* open on k), and changes no other key; this for any interleaving of set,
\* push and pop calls over the names.
C2_PopRestores ==
    [][(call'.op = "popSetting" /\ call'.exc = "none") =>
        /\ held[call'.name] # <<>>
        /\ settings'[call'.name] = Last(held[call'.name])
        /\ \A j \in DOMAIN settings \ {call'.name} : settings'[j] = settings[j]
        /\ DOMAIN settings' = DOMAIN settings]_vars

\* a pop inside an outer push on the same key, while the restored value
\* differs from the value the outer push saved
C2_Witness ==
    /\ call.op = "popSetting"
    /\ call.exc = "none"
    /\ Len(StackGet(stacks, call.name)) = 1
    /\ settings[call.name] # stacks[call.name][1]
    /\ settings[call.name] # DEFAULT_COMPILER_SETTINGS[call.name]

----------------------------------------------------------------------------
(* Claims about the MethodCompiler *)

\* C3: addYield on a MethodCompiler that has a return, and addReturn on one
\* that is a generator, raise and leave the MethodCompiler exactly as it was
\* (no chunk, no flag, no local name, the pending literal still pending);
\* no reachable MethodCompiler has both hasReturnStatement and isGenerator.
C3_NoControlMix ==
    /\ [](~(mc.hasReturnStatement /\ mc.isGenerator))
    /\ [][((call'.op = "addYield" /\ mc.hasReturnStatement)
             \/ (call'.op = "addReturn" /\ mc.isGenerator)) =>
           (call'.exc = "AssertionError" /\ mc' = mc)]_vars

\* a yield was refused after a return, with a literal still pending
C3_Witness ==
    /\ call.op = "addYield"
    /\ call.exc = "AssertionError"
    /\ mc.hasReturnStatement
    /\ ~mc.isGenerator
    /\ mc.pendingStrConstChunks # <<>>
    /\ mc.methodBodyChunks # <<>>

\* the text of a chunk without its line break and indentation
RECURSIVE ChunkBody(_)
ChunkBody(chunk) ==
    IF chunk # <<>> /\ (Head(chunk) = "\n" \/ <<Head(chunk)>> = INDENT)
    THEN ChunkBody(Tail(chunk))
    ELSE chunk

IsSave(body) ==
    Len(body) = 4 /\ body[1] = "_orig_trans" /\ body[4] = " = trans"

IsRestore(body) ==
    Len(body) = 3 /\ body[1] = "self.transaction = trans = _orig_trans"

\* reading the emitted chunks in order: the ids whose output target was
\* saved and not yet restored, innermost last; ok is false once a restore
\* names another id than the innermost saved one
RECURSIVE ScanRegions(_)
ScanRegions(chunks) ==
    IF chunks = <<>> THEN [ok |-> TRUE, open |-> <<>>]
    ELSE LET prev == ScanRegions(Front(chunks))
             body == ChunkBody(Last(chunks))
         IN  IF IsSave(body)
             THEN [ok |-> prev.ok, open |-> Append(prev.open, SubSeq(body, 2, 3))]
             ELSE IF IsRestore(body)
             THEN [ok |-> /\ prev.ok
                          /\ prev.open # <<>>
                          /\ Last(prev.open) = SubSeq(body, 2, 3),
                   open |-> IF prev.open = <<>> THEN <<>> ELSE Front(prev.open)]
             ELSE prev

\* the bodies of the chunks a step appended
Emitted(before, after) ==
    [i \in 1..(Len(after.methodBodyChunks) - Len(before.methodBodyChunks)) |->
        ChunkBody(after.methodBodyChunks[Len(before.methodBodyChunks) + i])]

Positions(bodies, body) == {i \in 1..Len(bodies) : bodies[i] = body}

\* the chunks come one after the other, each emitted exactly once
InOrder(bodies, wanted) ==
    /\ \A k \in 1..Len(wanted) : Cardinality(Positions(bodies, wanted[k])) = 1
    /\ \A k \in 1..(Len(wanted) - 1) :
           \A i \in Positions(bodies, wanted[k]), j \in Positions(bodies, wanted[k + 1]) :
               i < j

\* C4: in the emitted text the saves and restores of the output target nest:
\* every restore names the innermost target saved and not yet restored, and
\* the targets still saved are those of the open frames; an endCallRegion
\* that returns pops the top frame and emits, for that frame and in this
\* order: the restore of the saved target, the retrieval of the buffer's
\* content, the deletion of the buffer, the invocation
\* function(content, extra-args) and its filtered write.
C4_CloseOrder ==
    /\ [](/\ ScanRegions(mc.methodBodyChunks).ok
           /\ ScanRegions(mc.methodBodyChunks).open =
                 [i \in 1..Len(mc.callRegionsStack) |-> mc.callRegionsStack[i].call_id])
    /\ [][(call'.op = "endCallRegion" /\ call'.exc = "none") =>
           LET cd == Last(mc.callRegionsStack)
               id == cd.call_id
               extra == IF RStrip(cd.args) = <<>> THEN <<",">>
                        ELSE <<",", " ">> \o RStrip(cd.args)
           IN  /\ mc.callRegionsStack # <<>>
               /\ mc'.callRegionsStack = Front(mc.callRegionsStack)
               /\ InOrder(Emitted(mc, mc'),
                     << <<"self.transaction = trans = _orig_trans">> \o id,
                        <<"_call_arg">> \o id \o <<" = _call">> \o id \o <<".getvalue()">>,
                        <<"del _call">> \o id,
                        <<"_v = ">> \o cd.function_name \o <<"(_call_arg">> \o id
                            \o extra \o <<")">>,
                        <<"if _v is not NO_CONTENT: write(_filter(_v))">> >>)]_vars

\* two call regions, the second opened inside the first, both closed
C4_Witness ==
    /\ call.op = "endCallRegion"
    /\ call.exc = "none"
    /\ mc.callRegionsStack = <<>>
    /\ mc.next_variable_id = 2
    /\ Len(mc.methodBodyChunks) > 6
    /\ IsSave(ChunkBody(mc.methodBodyChunks[2]))
    /\ IsSave(ChunkBody(mc.methodBodyChunks[6]))

----------------------------------------------------------------------------
(* Claims about genCheetahVar *)

\* dynamic-resolution calls in a rendered text
CountCalls(text) == Cardinality({i \in 1..Len(text) : text[i] \in {"VFFSL(", "VFN("}})

\* name and trailing expression of each segment, joined by dots
RECURSIVE DottedPath(_)
DottedPath(nameChunks) ==
    IF Len(nameChunks) = 1 THEN nameChunks[1][1] \o nameChunks[1][3]
    ELSE DottedPath(Front(nameChunks)) \o <<".">> \o Last(nameChunks)[1]
             \o Last(nameChunks)[3]

\* the part of a dotted name before its first dot
RECURSIVE Leading(_)
Leading(name) ==
    IF name = <<>> \/ Head(name) = "." THEN <<>>
    ELSE <<Head(name)>> \o Leading(Tail(name))

On(name) == settings[name] = PyTrue

Rendered == call.op = "genCheetahVar" /\ call.exc = "none"

\* the reference is rendered in dynamic mode: dynamic resolution is enabled,
\* plain rendering is not requested, and the first name is not one the
\* optimization resolves lexically
DynamicMode ==
    /\ Rendered
    /\ On("useNameMapper")
    /\ ~call.plain
    /\ ~(/\ On("optimize_lookup") /\ ~On("useAutocalling") /\ ~On("useDottedNotation")
         /\ \/ IsName(Leading(call.nameChunks[1][1]), mc.local_vars)
            \/ IsName(Leading(call.nameChunks[1][1]), global_vars)
            \/ IsName(Leading(call.nameChunks[1][1]), BUILTIN_NAMES))

\* C5: with optimize_lookup on, useAutocalling and useDottedNotation off and
\* the leading dotted component of the first segment a local name of the
\* current method, genCheetahVar returns the dotted path of all segments,
\* which holds no dynamic-resolution call.
C5_LocalIsPlain ==
    (/\ Rendered
     /\ On("optimize_lookup") /\ ~On("useAutocalling") /\ ~On("useDottedNotation")
     /\ IsName(Leading(call.nameChunks[1][1]), mc.local_vars))
    => (call.ret = DottedPath(call.nameChunks) /\ CountCalls(call.ret) = 0)

\* a three-segment reference rooted at a local, rendered with dynamic
\* resolution enabled and plain rendering not requested
C5_Witness ==
    /\ Rendered
    /\ On("optimize_lookup") /\ ~On("useAutocalling") /\ ~On("useDottedNotation")
    /\ On("useNameMapper") /\ ~call.plain
    /\ IsName(Leading(call.nameChunks[1][1]), mc.local_vars)
    /\ Len(call.nameChunks[1][1]) > 1
    /\ Len(call.nameChunks) = MaxSegs

\* text of (segment autocall flag AND useAutocalling)
AutocallArg(chunk) == IF chunk[2] = PyTrue /\ On("useAutocalling") THEN "True" ELSE "False"

\* the nested calls for the first n segments
RECURSIVE NestedCalls(_, _)
NestedCalls(nameChunks, n) ==
    IF n = 1
    THEN <<"VFFSL(", "SL, \"">> \o nameChunks[1][1] \o <<"\", ", AutocallArg(nameChunks[1]),
             ", ", settings["useDottedNotation"][2], ")">> \o nameChunks[1][3]
    ELSE <<"VFN(">> \o NestedCalls(nameChunks, n - 1) \o <<", \"">> \o nameChunks[n][1]
             \o <<"\", ", AutocallArg(nameChunks[n]), ", ",
                   settings["useDottedNotation"][2], ")">> \o nameChunks[n][3]

RECURSIVE DottedRest(_, _)
DottedRest(nameChunks, n) ==
    IF n <= 1 THEN <<>>
    ELSE DottedRest(nameChunks, n - 1) \o <<".">> \o nameChunks[n][1] \o nameChunks[n][3]

\* C7 as claimed: in dynamic mode with optimize_lookup on, the rendering
\* holds exactly one dynamic-resolution call.
C7_Claimed ==
    (DynamicMode /\ On("optimize_lookup")) => CountCalls(call.ret) = 1

\* C7 amended: in dynamic mode with optimize_lookup on and useAutocalling
\* and useDottedNotation both off, only the first segment gets a call: the
\* rendering is one VFFSL call followed by the later segments as dotted
\* attribute text, whatever the number of segments.
C7_OptimizedSingleCall ==
    (/\ DynamicMode
     /\ On("optimize_lookup") /\ ~On("useAutocalling") /\ ~On("useDottedNotation"))
    => (/\ CountCalls(call.ret) = 1
        /\ call.ret[1] = "VFFSL("
        /\ Len(call.ret) > Len(DottedRest(call.nameChunks, Len(call.nameChunks)))
        /\ SubSeq(call.ret,
                  Len(call.ret) - Len(DottedRest(call.nameChunks, Len(call.nameChunks))) + 1,
                  Len(call.ret))
             = DottedRest(call.nameChunks, Len(call.nameChunks)))

C7_Witness ==
    /\ DynamicMode
    /\ On("optimize_lookup") /\ ~On("useAutocalling") /\ ~On("useDottedNotation")
    /\ Len(call.nameChunks) = MaxSegs
    /\ CountCalls(call.ret) = 1

OptimizedDynamic ==
    /\ DynamicMode
    /\ On("optimize_lookup") /\ ~On("useAutocalling") /\ ~On("useDottedNotation")

\* C8 as claimed: in optimized dynamic mode the name passed to VFFSL is the
\* whole dotted base text of the first segment.
C8_Claimed ==
    OptimizedDynamic =>
        SubSeq(call.ret, 1, Len(call.nameChunks[1][1]) + 3)
            = <<"VFFSL(", "SL, \"">> \o call.nameChunks[1][1] \o <<"\")">>

\* C8 amended: in optimized dynamic mode the name passed to VFFSL is the
\* leading dotted component of the first segment's base text; the rest of
\* the base text follows the call as dotted attribute text, then the
\* segment's trailing expression.
C8_KeyedByLeading ==
    OptimizedDynamic =>
        LET name == call.nameChunks[1][1]
            lead == Leading(name)
            head == <<"VFFSL(", "SL, \"">> \o lead \o <<"\")">>
                        \o SubSeq(name, Len(lead) + 1, Len(name)) \o call.nameChunks[1][3]
        IN  /\ Len(call.ret) >= Len(head)
            /\ SubSeq(call.ret, 1, Len(head)) = head

\* a first segment with a dotted base text, rendered in optimized dynamic mode
C8_Witness ==
    /\ OptimizedDynamic
    /\ Len(call.nameChunks[1][1]) > 1
    /\ Len(call.nameChunks) > 1

\* C9: with useNameMapper off, or plain rendering requested, genCheetahVar
\* returns the dotted path of the segments, with no dynamic-resolution call,
\* whatever the other settings and whatever the first name is.
C9_ForcedPlain ==
    (Rendered /\ (~On("useNameMapper") \/ call.plain))
    => (call.ret = DottedPath(call.nameChunks) /\ CountCalls(call.ret) = 0)

\* plain rendering requested for a name unknown to the compiler while
\* dynamic resolution is on and unoptimized
C9_Witness ==
    /\ Rendered
    /\ call.plain
    /\ On("useNameMapper") /\ ~On("optimize_lookup") /\ On("useAutocalling")
    /\ call.nameChunks[1][1] = <<"_", ".", "x">>
    /\ Len(call.nameChunks) = MaxSegs

GetTextTokens == {settings["gettextTokens"][2][k] : k \in 1..Len(settings["gettextTokens"][2])}

LocationComment(lineCol) ==
    <<" # generated from line ", ToString(lineCol[1]), ", col ", ToString(lineCol[2]), ".">>

\* C10 as claimed: a call records one entry exactly when the leading
\* identifier of some segment is a gettextTokens entry, and none otherwise.
C10_Claimed ==
    [][call'.op = "genCheetahVar" =>
        Len(gettext_scannables') = Len(gettext_scannables) +
            (IF \E i \in 1..Len(call'.nameChunks) :
                    Leading(call'.nameChunks[i][1]) \in GetTextTokens
             THEN 1 ELSE 0)]_vars

\* C10 amended: in plain and in dynamic mode alike, a call appends exactly
\* one entry - the dotted path of the reference followed by its line/column
\* comment - when the whole dotted base text of some segment equals a
\* gettextTokens entry, and leaves the list as it was otherwise.
C10_ScannableRecorded ==
    [][call'.op = "genCheetahVar" =>
        gettext_scannables' =
            IF \E i \in 1..Len(call'.nameChunks) : call'.nameChunks[i][1] \in GetTextTokens
            THEN Append(gettext_scannables,
                        DottedPath(call'.nameChunks) \o LocationComment(call'.lineCol))
            ELSE gettext_scannables]_vars

\* a reference rendered in dynamic mode whose last segment is a gettext token
C10_Witness ==
    /\ DynamicMode
    /\ Len(call.nameChunks) = MaxSegs
    /\ Last(call.nameChunks)[1] = <<"gettext">>
    /\ Len(gettext_scannables) = 1
    /\ CountCalls(call.ret) > 0

----------------------------------------------------------------------------
(* Claims about bulk updates and reads of the settings store *)

\* the index of the first item whose key is not declared
FirstUndeclared(items) ==
    CHOOSE k \in DOMAIN items :
        /\ items[k][1] \notin DOMAIN settings
        /\ \A j \in 1..(k - 1) : items[j][1] \in DOMAIN settings

\* C17: updateSettings writes its items one key at a time and does not roll
\* back: it raises UnexpectedSettingName exactly when some key is not
\* declared, and then every key met before the first undeclared one holds
\* its new value, every other key holds its old value, and no key is added.
C17_NoRollback ==
    [][call'.op = "updateSettings" =>
        LET items == call'.items
            undeclared == \E k \in DOMAIN items : items[k][1] \notin DOMAIN settings
        IN  /\ (call'.exc = "UnexpectedSettingName") <=> undeclared
            /\ undeclared =>
                /\ \A j \in 1..(FirstUndeclared(items) - 1) :
                       settings'[items[j][1]] = items[j][2]
                /\ \A n \in DOMAIN settings :
                       (\A j \in 1..(FirstUndeclared(items) - 1) : items[j][1] # n)
                           => settings'[n] = settings[n]
                /\ DOMAIN settings' = DOMAIN settings
    ]_vars

\* a failed update of three items, the undeclared key second: the first item
\* is written (it changed the default), the third is not
C17_Witness ==
    /\ call.op = "updateSettings"
    /\ call.exc = "UnexpectedSettingName"
    /\ Len(call.items) = 3
    /\ call.items[2][1] = "noSuchSetting"
    /\ settings[call.items[1][1]] = call.items[1][2]
    /\ call.items[1][2] # DEFAULT_COMPILER_SETTINGS[call.items[1][1]]
    /\ settings[call.items[3][1]] # call.items[3][2]
    /\ settings[call.items[3][1]] = DEFAULT_COMPILER_SETTINGS[call.items[3][1]]

\* what a 'key = value' line of the settings texts asks for: the key and the
\* value it is to hold
ExpectedWrite(line) ==
    CASE line = <<"useNameMapper", " ", "=", " ", "true">> -> <<"useNameMapper", PyTrue>>
      [] line = <<"mainMethodName", " ", "=", " ", "none">> -> <<"mainMethodName", PyNone>>
      [] line = <<"optimize_lookup", " ", "=", " ", "3">> -> <<"optimize_lookup", PyStr("3")>>
      [] line = <<" ", "useNameMapper", "=", "FALSE", " ">> -> <<"useNameMapper", PyFalse>>
      [] line = <<"noSuchSetting", "=", "x", "=", "y">> -> <<"noSuchSetting", PyStr("x=y")>>

ExampleConfigStr ==
    <<"useNameMapper", " ", "=", " ", "true", "\n",
      "mainMethodName", " ", "=", " ", "none", "\n",
      "optimize_lookup", " ", "=", " ", "3", "\n">>

\* C18: when updateSettingsFromConfigStr returns, every key named by a
\* 'key = value' line holds the value of the last line naming it (key and
\* value stripped; none/true/false in any letter case coerced to None, True,
\* False; any other value kept as text) and every other key is unchanged;
\* 'useNameMapper = true', 'mainMethodName = none', 'optimize_lookup = 3'
\* yields True, None and the text "3".
C18_ConfigText ==
    [][call'.op = "updateSettingsFromConfigStr" /\ call'.exc = "none" =>
        \A lines \in {splitlines(call'.config_str)} :
        LET Names(k) == {i \in DOMAIN lines : ExpectedWrite(lines[i])[1] = k}
        IN  /\ \A k \in DOMAIN settings :
                   settings'[k] =
                       IF Names(k) = {} THEN settings[k]
                       ELSE ExpectedWrite(lines[CHOOSE i \in Names(k) :
                                                    \A j \in Names(k) : j <= i])[2]
            /\ call'.config_str = ExampleConfigStr =>
                   /\ settings'["useNameMapper"] = PyTrue
                   /\ settings'["mainMethodName"] = PyNone
                   /\ settings'["optimize_lookup"] = PyStr("3")
    ]_vars

\* the example text has been applied
C18_Witness ==
    /\ call.op = "updateSettingsFromConfigStr"
    /\ call.exc = "none"
    /\ call.config_str = ExampleConfigStr
    /\ settings["useNameMapper"] = PyTrue
    /\ settings["mainMethodName"] = PyNone
    /\ settings["optimize_lookup"] = PyStr("3")

\* C19 as claimed: setting(name) of an undeclared name raises the error
\* setSetting raises for it, UnexpectedSettingName, the store unchanged.
C19_Claimed ==
    [][call'.op = "setting" /\ call'.name \notin DOMAIN settings =>
        /\ call'.exc = "UnexpectedSettingName"
        /\ call'.exc = setSetting(settings, stacks, call'.name, PyNone).exc
        /\ settings' = settings /\ stacks' = stacks
    ]_vars

\* C19: setting(name) of an undeclared name raises KeyError, which is not
\* the UnexpectedSettingName that setSetting raises for the same name, and
\* leaves the settings and the override stacks as they were.
C19_ReadUndeclared ==
    [][call'.op = "setting" /\ call'.name \notin DOMAIN settings =>
        /\ call'.exc = "KeyError"
        /\ setSetting(settings, stacks, call'.name, PyNone).exc = "UnexpectedSettingName"
        /\ settings' = settings /\ stacks' = stacks
    ]_vars

C19_Witness ==
    /\ call.op = "setting"
    /\ call.name = "noSuchSetting"
    /\ call.name \notin DOMAIN settings
    /\ call.exc = "KeyError"

----------------------------------------------------------------------------
(* Claims about the indentation of a MethodCompiler *)

\* C20 as claimed: dedent at the level a new MethodCompiler starts with
\* raises and leaves the level as it was, and the level is never below it.
C20_Claimed ==
    /\ [](mc.indentLev >= NewMethodCompiler("respond", <<>>, <<>>).indentLev)
    /\ [][call'.op = "dedent" /\ mc.indentLev = BaseIndentLev =>
            call'.exc = "AssertionError" /\ mc'.indentLev = mc.indentLev]_vars

\* C20: dedent raises AssertionError exactly when the level is 0 and then
\* leaves the MethodCompiler as it was; at any other level, the level a new
\* MethodCompiler starts with included, it returns and lowers the level by
\* one; so the level is never below 0.
C20_DedentUnderflow ==
    /\ [](mc.indentLev >= 0)
    /\ [][call'.op = "dedent" =>
            IF mc.indentLev = 0
            THEN call'.exc = "AssertionError" /\ mc' = mc
            ELSE call'.exc = "none" /\ mc'.indentLev = mc.indentLev - 1]_vars

\* a dedent has failed at level 0, two levels below the starting level
C20_Witness ==
    /\ call.op = "dedent"
    /\ call.exc = "AssertionError"
    /\ mc.indentLev = 0
    /\ mc.indentLev < BaseIndentLev

----------------------------------------------------------------------------
(* Claims about the ClassCompiler during a parse *)

Range(seq) == {seq[i] : i \in DOMAIN seq}

\* C12: the finished-methods list is in closing order.  A closeDef or
\* closeBlock appends the method on top of the active list, and every method
\* declared after that one (so declared inside it) is in the list already;
\* a startMethodDef leaves the list alone, so a method closed before the
\* declaration of another stays ahead of it; the cleanup at the end of the
\* parse appends the methods still active, innermost first.
C12_ClosingOrder ==
    [][/\ (call'.op \in {"closeDef", "closeBlock"} /\ cc.activeMethodsList # <<>>) =>
            /\ cc'.finishedMethodsList =
                   Append(cc.finishedMethodsList, Last(cc.activeMethodsList))
            /\ cc'.activeMethodsList = Front(cc.activeMethodsList)
            /\ \A later \in (Last(cc.activeMethodsList) + 1)..Len(cc.methodCompilers) :
                   later \in Range(cc.finishedMethodsList)
       /\ call'.op = "startMethodDef" =>
            /\ cc'.finishedMethodsList = cc.finishedMethodsList
            /\ cc'.activeMethodsList =
                   Append(cc.activeMethodsList, Len(cc.methodCompilers) + 1)
            /\ \A earlier \in 1..Len(cc.methodCompilers) :
                   earlier \in Range(cc.activeMethodsList)
                               \cup Range(cc.finishedMethodsList)
       /\ call'.op = "getModuleCode" =>
            cc'.finishedMethodsList =
                cc.finishedMethodsList \o Reverse(cc.activeMethodsList)
    ]_vars

\* startMethodDef(a); startMethodDef(b); close; close: the finished list is
\* [b, a], b being the method declared second
C12_Witness ==
    /\ call.op \in {"closeDef", "closeBlock"}
    /\ call.exc = "none"
    /\ Len(cc.finishedMethodsList) = 2
    /\ cc.methodCompilers[cc.finishedMethodsList[1]].methodName = "b"
    /\ cc.methodCompilers[cc.finishedMethodsList[2]].methodName = "a"
    /\ cc.finishedMethodsList[1] > cc.finishedMethodsList[2]
    /\ cc.main_method \in Range(cc.activeMethodsList)

\* the number a call or filter id was made from
IdNum(id) == CHOOSE n \in 1..(MaxCallbacks + 1) : Str(n) = <<id[2]>>

\* a filter region opened after the innermost open call region is open
InnerFilterOpen(m) ==
    /\ m.callRegionsStack # <<>>
    /\ m.filterRegionsStack # <<>>
    /\ IdNum(Last(m.filterRegionsStack)) > IdNum(Last(m.callRegionsStack).call_id)

HasOpenRegion(m) == m.callRegionsStack # <<>> \/ m.filterRegionsStack # <<>>

----------------------------------------------------------------------------
(* Claims about imports, extends and the module code *)

\* C14: getModuleCode sets _class_compiler to the ClassCompiler it spawned
\* for the time of the parse, and however it is left - returning the module
\* text or raising what a callback raised - _class_compiler is again the
\* value it had when getModuleCode was called.
C14_ClassCompilerRestored ==
    /\ [](pc.at \in {"returned", "raised"} => class_compiler = pc.orig)
    /\ [](pc.at = "parsing" => class_compiler # pc.orig)
    /\ [][pc.at = "constructed" /\ pc'.at = "parsing" => pc'.orig = class_compiler]_vars

\* a callback raised and getModuleCode with it; _class_compiler is as before
C14_Witness ==
    /\ pc.at = "raised"
    /\ call.exc # "none"
    /\ cc.activeMethodsList # <<>>
    /\ class_compiler = "None"

\* the names the import statements fed to addImport bind
ImportedNames(imp_statement) ==
    CASE imp_statement = <<"import ", "base">> -> {"base"}
      [] imp_statement = <<"from ", "os", " import ", "path", " as ", "p">> -> {"p"}

\* C15: with useLegacyImportMode on, addImport appends the statement to the
\* module's import list, adds every name it binds to the global names and
\* adds nothing to the method body.  With it off, no name is added to the
\* global names; if the body of the current method has chunks the statement
\* becomes the next chunk of the body and the import list is left alone,
\* and if it has none the statement is appended to the import list and the
\* body stays empty.
C15_ImportRegistration ==
    [][(call'.op = "addImport" /\ cc.activeMethodsList # <<>>) =>
        LET imp_statement == call'.arg
            body == _getActiveMethodCompiler(cc).methodBodyChunks
            body_after == _getActiveMethodCompiler(cc').methodBodyChunks
        IN  /\ call'.exc = "none"
            /\ IF settings["useLegacyImportMode"] = PyTrue
               THEN /\ importStatements' = Append(importStatements, imp_statement)
                    /\ global_vars' = global_vars \cup ImportedNames(imp_statement)
                    /\ body_after = body
               ELSE /\ global_vars' = global_vars
                    /\ IF body # <<>>
                       THEN /\ importStatements' = importStatements
                            /\ body_after =
                                   Append(body, <<"\n">> \o Rep(INDENT, BaseIndentLev)
                                                \o imp_statement)
                       ELSE /\ importStatements' =
                                   Append(importStatements, imp_statement)
                            /\ body_after = body
    ]_vars

\* legacy mode off, the body not empty: the statement was emitted inline,
\* is not in the import list and its name is not a global name
C15_Witness ==
    /\ call.op = "addImport"
    /\ call.exc = "none"
    /\ settings["useLegacyImportMode"] = PyFalse
    /\ Len(_getActiveMethodCompiler(cc).methodBodyChunks) >= 2
    /\ Last(_getActiveMethodCompiler(cc).methodBodyChunks)
           = <<"\n">> \o Rep(INDENT, BaseIndentLev) \o call.arg
    /\ call.arg \notin Range(importStatements)
    /\ ImportedNames(call.arg) \cap global_vars = {}

MainMethodName(c) == c.methodCompilers[c.main_method].methodName

\* C16 as claimed: set_extends raises exactly when its target is a global
\* name, and then the name of the main method, the base import and the
\* global names are as before the call.
C16_Claimed ==
    [][call'.op = "set_extends" =>
        /\ (call'.exc = "AssertionError") <=> (call'.arg \in global_vars)
        /\ call'.exc # "none" =>
               /\ MainMethodName(cc') = MainMethodName(cc)
               /\ base_import' = base_import
               /\ global_vars' = global_vars
    ]_vars

\* C16: set_extends raises AssertionError exactly when its target is a
\* global name; the call that raises leaves the base import, the import
\* list and the global names as they were, but it has already renamed the
\* main method to the value of mainMethodNameForSubclasses.
C16_ExtendsCollision ==
    [][call'.op = "set_extends" =>
        /\ (call'.exc = "AssertionError") <=> (call'.arg \in global_vars)
        /\ call'.exc \in {"none", "AssertionError"}
        /\ MainMethodName(cc') = settings["mainMethodNameForSubclasses"][2]
        /\ call'.exc # "none" =>
               /\ base_import' = base_import
               /\ importStatements' = importStatements
               /\ global_vars' = global_vars
               /\ cc' = setMainMethodName(cc, MainMethodName(cc'))
    ]_vars

\* a set_extends has failed; the main method is no longer named respond
C16_Witness ==
    /\ call.op = "set_extends"
    /\ call.exc = "AssertionError"
    /\ call.arg \in global_vars
    /\ MainMethodName(cc) = "writeBody"
    /\ settings["mainMethodName"] = PyStr("respond")
    /\ base_import[2] = "Cheetah.Template"

\* the lines of the module text
ModuleLines(text) == splitlines(text)

IsBaseImport(line) ==
    /\ Len(line) >= 4
    /\ Head(line) = "from "
    /\ SubSeq(line, Len(line) - 2, Len(line)) = <<CLASS_NAME, " as ", BASE_CLASS_NAME>>

ClassLine == <<"class ", CLASS_NAME, "(", BASE_CLASS_NAME, "):">>

ScannablesLine == <<"def __CHEETAH_gettext_scannables():">>

\* C11: the import list only grows, at its end, by the statement an
\* addImport registers; the module text getModuleCode returns has, after
\* its first line, one line per statement of the import list in the order of
\* the list, then the base import, which is the only line importing the
\* base class, then (after blank lines and the marker of compiled code) the
\* class statement; and it has the line defining
\* __CHEETAH_gettext_scannables, after the class statement, exactly when
\* the list of scannables is not empty.
C11_ModuleLayout ==
    [][/\ IF call'.op = "addImport"
          THEN importStatements' \in {importStatements,
                                     Append(importStatements, call'.arg)}
          ELSE importStatements' = importStatements
       /\ call'.op = "getModuleCode" =>
            \A lines \in {ModuleLines(call'.ret)} :
            LET n == Len(importStatements)
                classes == {i \in DOMAIN lines : lines[i] = ClassLine}
                scannables == {i \in DOMAIN lines : lines[i] = ScannablesLine}
            IN  /\ \A i \in 1..n : lines[1 + i] = importStatements[i]
                /\ lines[n + 2] = base_import
                /\ {i \in DOMAIN lines : IsBaseImport(lines[i])} = {n + 2}
                /\ classes = {n + 9}
                /\ \A i \in (n + 3)..(n + 8) :
                       lines[i] \in {<<>>, <<"# This is compiled yelp_cheetah sourcecode">>,
                                     <<"__YELP_CHEETAH__ = True">>}
                /\ (scannables # {}) <=> (gettext_scannables # <<>>)
                /\ \A i \in scannables : i > n + 9
                /\ Cardinality(scannables) <= 1
    ]_vars

\* a module text with two registered imports and a scannable was returned
C11_Witness ==
    /\ pc.at = "returned"
    /\ call.op = "getModuleCode"
    /\ Len(importStatements) = 6
    /\ importStatements[5] # importStatements[6]
    /\ gettext_scannables # <<>>
    /\ \E i \in DOMAIN ModuleLines(call.ret) : ModuleLines(call.ret)[i] = ScannablesLine


----------------------------------------------------------------------------
(* C21: the pending literal and the indentation *)

\* the calls that append a chunk or move the indentation level
IndentingOps == {"indent", "dedent", "addIf", "addElse"}

\* C21 as stated: in every step that appends a chunk to the body or changes
\* the indentation (indent, dedent, an opening or a re-indenting directive),
\* the pending-literal buffer is empty
C21_Claimed ==
    [][ ( \/ mc'.methodBodyChunks # mc.methodBodyChunks
          \/ (call'.op \in IndentingOps /\ call'.exc = "none") )
        => mc'.pendingStrConstChunks = <<>> ]_vars

\* C21: a step that appends a chunk, and an opening or re-indenting directive,
\* leave the pending-literal buffer empty, the literal being emitted before the
\* chunk at the level of the commit; a bare indent() or dedent() moves the
\* level and leaves the buffer and the body as they were, so a literal pending
\* across it is emitted later, at the new level
C21_FlushedByChunks ==
    [][ /\ ( \/ mc'.methodBodyChunks # mc.methodBodyChunks
             \/ (call'.op \in {"addIf", "addElse"} /\ call'.exc = "none") )
           => mc'.pendingStrConstChunks = <<>>
        /\ (call'.op \in {"indent", "dedent"})
           => /\ mc'.pendingStrConstChunks = mc.pendingStrConstChunks
              /\ mc'.methodBodyChunks = mc.methodBodyChunks
        /\ ( /\ call'.op = "addSet"
             /\ mc.pendingStrConstChunks # <<>> )
           => /\ Len(mc'.methodBodyChunks) = Len(mc.methodBodyChunks) + 2
              /\ mc'.methodBodyChunks[Len(mc.methodBodyChunks) + 1]
                    = commitStrConst(mc).methodBodyChunks[Len(mc.methodBodyChunks) + 1]
              /\ SubSeq(mc'.methodBodyChunks[Len(mc.methodBodyChunks) + 1],
                        1, 1 + Len(indentation(mc)))
                    = <<"\n">> \o indentation(mc) ]_vars

\* a literal is pending when a bare indent() has just moved the level
C21_Witness ==
    /\ call.op = "indent"
    /\ call.exc = "none"
    /\ mc.indentLev = BaseIndentLev + 1
    /\ mc.pendingStrConstChunks # <<>>


----------------------------------------------------------------------------
(* C22: delegation to the MethodCompiler on top of the active list *)

\* the callbacks that the ClassCompiler does not implement itself
DelegatedOps == {"startCallRegion", "endCallRegion", "setFilter", "closeFilterBlock"}

\* what the delegated call does to the MethodCompiler m it is applied to
Applied(op, arg, m) ==
    CASE op = "setFilter" -> Ret(setFilter(m, arg))
      [] op = "endCallRegion" -> endCallRegion(m)
      [] op = "closeFilterBlock" -> closeFilterBlock(m)
      [] op = "startCallRegion" ->
            Ret(startCallRegion(m, arg, <<>>, CHOOSE lineCol \in LineCols : TRUE))

\* C22: a call that the ClassCompiler does not implement is applied to the
\* MethodCompiler on top of the active list (with none active it raises and
\* changes nothing); every other MethodCompiler, active or finished, and both
\* lists are left as they were
C22_Delegation ==
    [][ (call'.op \in DelegatedOps)
        => IF cc.activeMethodsList = <<>>
           THEN call'.exc = "IndexError" /\ cc' = cc
           ELSE LET top == Last(cc.activeMethodsList)
                    r == Applied(call'.op, call'.arg, cc.methodCompilers[top])
                IN  /\ call'.exc = r.exc
                    /\ cc'.methodCompilers[top] = r.m
                    /\ [cc' EXCEPT !.methodCompilers[top] = cc.methodCompilers[top]] = cc
                    /\ call'.exc = "none" => cc'.methodCompilers[top] # cc.methodCompilers[top]
      ]_vars

\* a filter has been set while two methods are active and one is finished
C22_Witness ==
    /\ call.op = "setFilter"
    /\ call.exc = "none"
    /\ Len(cc.activeMethodsList) = 2
    /\ Len(cc.finishedMethodsList) = 1
    /\ cc.methodCompilers[Last(cc.activeMethodsList)].filterRegionsStack # <<>>
    /\ cc.methodCompilers[Head(cc.activeMethodsList)].filterRegionsStack = <<>>


----------------------------------------------------------------------------
(* C23: what finalizing a MethodCompiler leaves in its body *)

\* a chunk as it stands in the body: a line break, the indentation, the text
Line(lev, text) ==
    IF text = <<>> THEN <<"\n">> ELSE <<"\n">> \o Rep(INDENT, lev) \o text

Preamble(comment) ==
    << Line(2, comment),
       Line(2, <<"trans = self.transaction">>),
       Line(2, <<"if not trans:">>),
       Line(3, <<"self.transaction = trans = DummyTransaction()">>),
       Line(3, <<"_dummyTrans = True">>),
       Line(2, <<"else:">>),
       Line(3, <<"_dummyTrans = False">>),
       Line(2, <<"write = trans.write">>),
       Line(2, <<"SL = self._CHEETAH__searchList">>),
       Line(2, <<"_filter = self._CHEETAH__currentFilter">>),
       Line(2, <<>>),
       Line(2, <<"## START - generated method body">>),
       Line(2, <<>>) >>

EndOfBody == << Line(2, <<>>), Line(2, <<"## END - generated method body">>) >>

ImplicitReturn ==
    << Line(2, <<>>),
       Line(2, <<"if _dummyTrans:">>),
       Line(3, <<"self.transaction = None">>),
       Line(3, <<"return trans.getvalue()">>),
       Line(2, <<"else:">>),
       Line(3, <<"return NO_CONTENT">>) >>

\* a yield statement stands among the chunks
YieldAdded(chunks) == \E i \in 1..Len(chunks) : Contains(chunks[i], "yield ")

\* C23: finalizing a MethodCompiler flushes the pending literal and leaves
\* the preamble, then the body chunks in the order they were emitted (the
\* flushed literal last), then the postamble; the postamble holds the
\* implicit return (the accumulated text when the call owns the transaction,
\* else NO_CONTENT) exactly when no yield was added
C23_Finalize ==
    [][ (call'.op = "cleanupState")
        => \A body \in {commitStrConst(mc).methodBodyChunks} :
           /\ mc'.pendingStrConstChunks = <<>>
           /\ Len(body) = Len(mc.methodBodyChunks)
                            + (IF mc.pendingStrConstChunks = <<>> THEN 0 ELSE 1)
           /\ SubSeq(body, 1, Len(mc.methodBodyChunks)) = mc.methodBodyChunks
           /\ mc'.methodBodyChunks
                 = Preamble(mc.initialMethodComment) \o body \o EndOfBody
                   \o (IF YieldAdded(body) THEN <<>> ELSE ImplicitReturn)
      ]_vars

\* a generator with a pending literal has been finalized
C23_Witness ==
    /\ call.op = "cleanupState"
    /\ mc.isGenerator
    /\ YieldAdded(mc.methodBodyChunks)
    /\ Len(mc.methodBodyChunks) = Len(Preamble(mc.initialMethodComment)) + 4
    /\ Last(mc.methodBodyChunks) # Last(ImplicitReturn)


----------------------------------------------------------------------------
(* C24: the decorators queued for the next method *)

\* the decorators of the MethodCompilers of c, by object
DecoratorsOf(c) == [id \in DOMAIN c.methodCompilers |-> c.methodCompilers[id].decorators]

\* C24: a spawn gives the whole queue, in queue order, to the MethodCompiler
\* it creates and leaves the queue empty; addDecorator appends to the queue;
\* no other call touches the queue, and the decorators of a MethodCompiler
\* never change once it is spawned: a decorator goes to the next method
\* spawned after it was queued and to no other
C24_Decorators ==
    [][ /\ (call'.op = "_set_class_compiler")
           => /\ cc'.decoratorsForNextMethod = <<>>
              /\ DecoratorsOf(cc') = << <<>> >>
        /\ (pc.at = "parsing")
           => \A n \in {Len(cc.methodCompilers)} :
              /\ SubSeq(DecoratorsOf(cc'), 1, n) = DecoratorsOf(cc)
              /\ IF call'.op = "startMethodDef"
                 THEN /\ Len(cc'.methodCompilers) = n + 1
                      /\ cc'.methodCompilers[n + 1].decorators = cc.decoratorsForNextMethod
                      /\ cc'.decoratorsForNextMethod = <<>>
                      /\ Last(cc'.activeMethodsList) = n + 1
                 ELSE /\ Len(cc'.methodCompilers) = n
                      /\ cc'.decoratorsForNextMethod
                           = IF call'.op = "addDecorator"
                             THEN Append(cc.decoratorsForNextMethod, call'.arg)
                             ELSE cc.decoratorsForNextMethod
      ]_vars

\* two decorators were queued, a method took them both in queue order and the
\* method spawned next took none
C24_Witness ==
    /\ call.op = "startMethodDef"
    /\ Len(cc.methodCompilers) = 3
    /\ cc.methodCompilers[2].decorators = << <<"@", "staticmethod">>, <<"@", "cached">> >>
    /\ cc.methodCompilers[3].decorators = <<>>
    /\ cc.decoratorsForNextMethod = <<>>


----------------------------------------------------------------------------
(* C25: the ids of the call regions and of the filter regions *)

\* the number an id was made from
RegionIdNum(id) == CHOOSE n \in 0..(MaxOps + 1) : Str(n) = <<id[2]>>

\* the chunk saves the output target or the filter under the id of a region
\* that is being opened
IsOpening(body) ==
    /\ Len(body) = 4
    /\ \/ body[1] = "_orig_trans" /\ body[4] = " = trans"
       \/ body[1] = "_orig_filter" /\ body[4] = " = _filter"

\* the numbers of the ids handed out so far, open or closed, in the order
\* in which the regions were opened
RECURSIVE HandedOut(_)
HandedOut(chunks) ==
    IF chunks = <<>> THEN <<>>
    ELSE LET body == ChunkBody(Last(chunks))
         IN  IF IsOpening(body)
             THEN Append(HandedOut(Front(chunks)), RegionIdNum(SubSeq(body, 2, 3)))
             ELSE HandedOut(Front(chunks))

\* the numbers of the ids of the regions that are open
OpenIds(m) ==
    [i \in 1..Len(m.callRegionsStack) |-> RegionIdNum(m.callRegionsStack[i].call_id)]
    \o [i \in 1..Len(m.filterRegionsStack) |-> RegionIdNum(m.filterRegionsStack[i])]

\* C25: within one MethodCompiler the ids handed out to call regions and
\* filter regions, open or closed, are 1, 2, 3, ... in the order of the
\* openings, whatever was closed in between: no two regions share an id, and
\* the counter never goes back
C25_FreshIds ==
    /\ [](\A ids \in {HandedOut(mc.methodBodyChunks)} :
             /\ Len(ids) = mc.next_variable_id
             /\ \A i \in 1..Len(ids) : ids[i] = i
             /\ \A i, j \in 1..Len(OpenIds(mc)) :
                    i # j => OpenIds(mc)[i] # OpenIds(mc)[j]
             /\ \A i \in 1..Len(OpenIds(mc)) : OpenIds(mc)[i] \in 1..mc.next_variable_id)
    /\ [][ /\ mc'.next_variable_id >= mc.next_variable_id
           /\ (call'.op \in {"startCallRegion", "setFilter"})
              => mc'.next_variable_id = mc.next_variable_id + 1 ]_vars

\* a third id is handed out after a call region was closed, with a filter
\* region and a call region open
C25_Witness ==
    /\ mc.next_variable_id = 3
    /\ call.op = "startCallRegion"
    /\ Len(mc.callRegionsStack) = 1
    /\ Len(mc.filterRegionsStack) = 1
    /\ RegionIdNum(mc.callRegionsStack[1].call_id) = 3
    /\ RegionIdNum(mc.filterRegionsStack[1]) = 2


----------------------------------------------------------------------------
(* C26: every MethodCompiler is finished once *)

\* how many times the MethodCompiler m has been finalized: each cleanupState
\* puts the line that starts the generated body into the body
FinalizedTimes(m) ==
    Cardinality({ i \in 1..Len(m.methodBodyChunks) :
                    m.methodBodyChunks[i] = Line(2, <<"## START - generated method body">>) })

TimesIn(seq, x) == Cardinality({i \in 1..Len(seq) : seq[i] = x})

\* C26: while the methods are begun and closed, a MethodCompiler is either
\* active and not finalized or in the finished list, once, and finalized once.
\* The closes have never outnumbered the begins exactly when the entry-point
\* method is still active; the cleanup that then ends the parse leaves no
\* method active, every MethodCompiler ever spawned in the finished list
\* exactly once and finalized exactly once, and the entry-point method last
C26_AllFinishedOnce ==
    /\ [](pc.at \in {"parsing", "raised", "returned"}
          => \A id \in DOMAIN cc.methodCompilers :
                /\ TimesIn(cc.activeMethodsList, id) + TimesIn(cc.finishedMethodsList, id) = 1
                /\ FinalizedTimes(cc.methodCompilers[id]) = TimesIn(cc.finishedMethodsList, id))
    /\ [][ ( /\ call'.op = "getModuleCode"
             /\ cc.main_method \in Range(cc.activeMethodsList) )
           => /\ cc'.activeMethodsList = <<>>
              /\ DOMAIN cc'.methodCompilers = DOMAIN cc.methodCompilers
              /\ Len(cc'.finishedMethodsList) = Len(cc.methodCompilers)
              /\ \A id \in DOMAIN cc'.methodCompilers :
                     /\ TimesIn(cc'.finishedMethodsList, id) = 1
                     /\ FinalizedTimes(cc'.methodCompilers[id]) = 1
              /\ Last(cc'.finishedMethodsList) = cc.main_method
              /\ SubSeq(cc'.finishedMethodsList, 1, Len(cc.finishedMethodsList))
                    = cc.finishedMethodsList ]_vars

\* three MethodCompilers were spawned, each inside the one before; after the
\* cleanup the innermost is first in the finished list and the entry-point
\* method last
C26_Witness ==
    /\ pc.at = "returned"
    /\ Len(cc.methodCompilers) = 3
    /\ cc.finishedMethodsList = <<3, 2, cc.main_method>>
    /\ cc.main_method = 1
    /\ cc.activeMethodsList = <<>>


----------------------------------------------------------------------------
(* C27: an import statement goes to one place *)

\* the places of the method bodies of c where the statement stands as a chunk
InlinePlaces(c, imp_statement) ==
    UNION { { <<id, i>> : i \in { j \in 1..Len(c.methodCompilers[id].methodBodyChunks) :
                                    ChunkBody(c.methodCompilers[id].methodBodyChunks[j])
                                        = imp_statement } } :
            id \in DOMAIN c.methodCompilers }

\* C27: an addImport / addFrom made while a method is active puts the
\* statement in exactly one place, whatever useLegacyImportMode is and whether
\* or not the body of the current method has chunks: the occurrences of the
\* statement in the module's import list and as a chunk of a method body grow
\* by one in all, and an inline statement is the last chunk of the current
\* method
C27_OnePlace ==
    [][(call'.op = "addImport" /\ cc.activeMethodsList # <<>>) =>
        \A inList \in {TimesIn(importStatements', call'.arg)
                        - TimesIn(importStatements, call'.arg)},
           inline \in {InlinePlaces(cc', call'.arg) \ InlinePlaces(cc, call'.arg)} :
            /\ call'.exc = "none"
            /\ InlinePlaces(cc, call'.arg) \subseteq InlinePlaces(cc', call'.arg)
            /\ inList \in {0, 1}
            /\ inList + Cardinality(inline) = 1
            /\ Len(importStatements') = Len(importStatements) + inList
            /\ inline \subseteq
                  { <<Last(cc.activeMethodsList),
                      Len(_getActiveMethodCompiler(cc).methodBodyChunks) + 1>> }
            /\ (inList = 1) <=> ( \/ settings["useLegacyImportMode"] = PyTrue
                                  \/ _getActiveMethodCompiler(cc).methodBodyChunks = <<>> )
    ]_vars

\* legacy mode off and the body still empty: the statement went to the
\* import list and stands in no method body
C27_Witness ==
    /\ call.op = "addImport"
    /\ call.exc = "none"
    /\ settings["useLegacyImportMode"] = PyFalse
    /\ Last(importStatements) = call.arg
    /\ InlinePlaces(cc, call.arg) = {}
    /\ _getActiveMethodCompiler(cc).methodBodyChunks = <<>>


----------------------------------------------------------------------------
(* C28: recording a gettext scannable does not change what is rendered *)

\* the same settings with no gettext token
NoTokens(se) == [se EXCEPT !["gettextTokens"] = <<"list", <<>> >>]

====
